---- MODULE Spec2Model ----
(***************************************************************************)
(* Album ingestion and retrieval pipeline of the gallery backend           *)
(* (backend/php/helpers.php) together with the upload coordinator that     *)
(* calls these helpers.  Strings are sequences of one-character strings,   *)
(* so that splitting, trimming, lower-casing and pattern matching are      *)
(* computed character by character as PHP computes them.                   *)
(***************************************************************************)
EXTENDS Integers, Sequences, FiniteSets, TLC

(***************************************************************************)
(* Bounds of the model.                                                    *)
(***************************************************************************)
\* longest upload name, counted in pieces of NamePieces
MaxPieces == 5
\* most files uploaded in one behaviour, over all its requests
MaxFiles == 3
\* most files in one request when two requests overlap
MaxConcBatch == 1

(***************************************************************************)
(* Characters and PHP string primitives.                                   *)
(***************************************************************************)
s_light == <<"l", "i", "g", "h", "t">>
s_max == <<"m", "a", "x">>

\* strtolower on the letters the model uses
LowerChar(c) ==
  CASE c = "L" -> "l" [] c = "I" -> "i" [] c = "G" -> "g" [] c = "H" -> "h"
    [] c = "T" -> "t" [] c = "M" -> "m" [] c = "A" -> "a" [] c = "X" -> "x"
    [] c = "J" -> "j" [] c = "P" -> "p"
    [] OTHER -> c

strtolower(s) == [i \in 1..Len(s) |-> LowerChar(s[i])]

\* str_replace('\\', '/', s)
str_replace_backslash(s) == [i \in 1..Len(s) |-> IF s[i] = "\\" THEN "/" ELSE s[i]]

\* characters stripped by PHP trim() with its default character list
TrimChars == {" ", "\t", "\n", "\r"}

RECURSIVE ltrim(_)
ltrim(s) == IF s # <<>> /\ Head(s) \in TrimChars THEN ltrim(Tail(s)) ELSE s

RECURSIVE rtrim(_)
rtrim(s) ==
  IF s # <<>> /\ s[Len(s)] \in TrimChars THEN rtrim(SubSeq(s, 1, Len(s) - 1)) ELSE s

trim(s) == rtrim(ltrim(s))

\* explode('/', s): the segments between the slashes, empty ones included
RECURSIVE explode(_)
explode(s) ==
  IF \A i \in 1..Len(s) : s[i] # "/"
  THEN <<s>>
  ELSE LET k == CHOOSE i \in 1..Len(s) : s[i] = "/" /\ \A j \in 1..(i - 1) : s[j] # "/"
       IN <<SubSeq(s, 1, k - 1)>> \o explode(SubSeq(s, k + 1, Len(s)))

\* a string PHP treats as false: the empty string and "0"
Falsy(s) == s = <<>> \/ s = <<"0">>

\* array_values(array_filter(parts)): drops the falsy segments, keeps the order
RECURSIVE array_filter(_)
array_filter(parts) ==
  IF parts = <<>> THEN <<>>
  ELSE IF Falsy(Head(parts)) THEN array_filter(Tail(parts))
  ELSE <<Head(parts)>> \o array_filter(Tail(parts))

\* the character class [_\-\.\s] of the filename patterns
SepChars == {"_", "-", ".", " ", "\t", "\n", "\r"}

\* mutant: the pattern without its closing separator class
preg_match_token_open(token, s) ==
  \E i \in 1..Len(s) :
    /\ i + Len(token) <= Len(s)
    /\ s[i] \in SepChars
    /\ strtolower(SubSeq(s, i + 1, i + Len(token))) = token

\* preg_match('/[_\-\.\s]<token>[_\-\.\s]/i', s)
preg_match_token(token, s) ==
  \E i \in 1..Len(s) :
    /\ i + Len(token) + 1 <= Len(s)
    /\ s[i] \in SepChars
    /\ strtolower(SubSeq(s, i + 1, i + Len(token))) = token
    /\ s[i + Len(token) + 1] \in SepChars

\* mutant: the segment comparison without strtolower
FirstTierPart_cased(pathParts) ==
  LET hits == {i \in 1..Len(pathParts) : trim(pathParts[i]) \in {s_light, s_max}}
  IN IF hits = {} THEN 0 ELSE CHOOSE i \in hits : \A j \in hits : i <= j

\* mutant: the foreach without its break, the last matching segment wins
FirstTierPart_last(pathParts) ==
  LET hits == {i \in 1..Len(pathParts) :
                 strtolower(trim(pathParts[i])) \in {s_light, s_max}}
  IN IF hits = {} THEN 0 ELSE CHOOSE i \in hits : \A j \in hits : j <= i

\* index of the first segment whose trimmed lower-case form is light or max; 0 if none
FirstTierPart(pathParts) ==
  LET hits == {i \in 1..Len(pathParts) :
                 strtolower(trim(pathParts[i])) \in {s_light, s_max}}
  IN IF hits = {} THEN 0 ELSE CHOOSE i \in hits : \A j \in hits : i <= j

\* mutant: the max pattern tried before the light pattern
parse_upload_path_maxfirst(filename) ==
  LET pathParts == array_filter(explode(str_replace_backslash(filename)))
      cleanName == IF pathParts = <<>> THEN filename ELSE pathParts[Len(pathParts)]
      hit == FirstTierPart(pathParts)
      lowerName == strtolower(cleanName)
      folderType ==
        IF hit # 0 THEN strtolower(trim(pathParts[hit]))
        ELSE IF preg_match_token(s_max, lowerName) THEN s_max
        ELSE IF preg_match_token(s_light, lowerName) THEN s_light
        ELSE <<>>
  IN [folderType |-> folderType, cleanName |-> cleanName]

parse_upload_path(filename) ==
  LET pathParts == array_filter(explode(str_replace_backslash(filename)))
      cleanName == IF pathParts = <<>> THEN filename ELSE pathParts[Len(pathParts)]
      hit == FirstTierPart(pathParts)
      lowerName == strtolower(cleanName)
      folderType ==
        IF hit # 0 THEN strtolower(trim(pathParts[hit]))
        ELSE IF preg_match_token(s_light, lowerName) THEN s_light
        ELSE IF preg_match_token(s_max, lowerName) THEN s_max
        ELSE <<>>
  IN [folderType |-> folderType, cleanName |-> cleanName]

(***************************************************************************)
(* File names: pathinfo, sanitize_filename, get_unique_filename.           *)
(***************************************************************************)
HasDot(name) == \E i \in 1..Len(name) : name[i] = "."

LastDot(name) == CHOOSE i \in 1..Len(name) : name[i] = "." /\ \A j \in (i + 1)..Len(name) : name[j] # "."

\* pathinfo(name, PATHINFO_EXTENSION) of a name without directory
pathinfo_extension(name) ==
  IF HasDot(name) THEN SubSeq(name, LastDot(name) + 1, Len(name)) ELSE <<>>

\* pathinfo(name, PATHINFO_FILENAME) of a name without directory
pathinfo_filename(name) ==
  IF HasDot(name) THEN SubSeq(name, 1, LastDot(name) - 1) ELSE name

\* preg_replace('/[<>:"\\\/|?*]/', '_', base).  In the single-quoted PHP
\* literal \\ is one backslash, so the pattern text is /[<>:"\\/|?*]/ : the
\* pair \\ is an escaped backslash and the slash after it is the closing
\* delimiter, which leaves |?*]/ as modifiers.  preg_replace rejects the
\* unknown modifier and returns null, whatever the subject; null is the empty
\* string to the calls that follow.
preg_replace_forbidden(base) == <<>>

WhiteChars == {" ", "\t", "\n", "\r"}

\* preg_replace('/\s+/', ' ', s): every run of white space becomes one space
RECURSIVE preg_replace_white(_)
preg_replace_white(s) ==
  IF s = <<>> THEN <<>>
  ELSE IF Head(s) \in WhiteChars
       THEN IF Len(s) > 1 /\ s[2] \in WhiteChars
            THEN preg_replace_white(Tail(s))
            ELSE <<" ">> \o preg_replace_white(Tail(s))
       ELSE <<Head(s)>> \o preg_replace_white(Tail(s))

s_photo == <<"p", "h", "o", "t", "o">>

sanitize_filename(filename) ==
  LET path == explode(str_replace_backslash(filename))
      name == path[Len(path)]
      ext == pathinfo_extension(name)
      base0 == trim(preg_replace_white(preg_replace_forbidden(pathinfo_filename(name))))
      base == IF base0 = <<>> THEN s_photo ELSE base0
  IN IF ~Falsy(ext) THEN base \o <<".">> \o ext ELSE base

DigitChar(d) ==
  CASE d = 0 -> "0" [] d = 1 -> "1" [] d = 2 -> "2" [] d = 3 -> "3" [] d = 4 -> "4"
    [] d = 5 -> "5" [] d = 6 -> "6" [] d = 7 -> "7" [] d = 8 -> "8" [] OTHER -> "9"

\* the decimal digits of a counter, as PHP's string conversion writes them
RECURSIVE IntToString(_)
IntToString(n) ==
  IF n < 10 THEN <<DigitChar(n)>> ELSE IntToString(n \div 10) \o <<DigitChar(n % 10)>>

\* file_exists($dir . DIRECTORY_SEPARATOR . $candidate) on the storage tree fs
file_exists(fs, dir, candidate) == <<dir[1], dir[2], candidate>> \in DOMAIN fs

\* mutant: the loop of get_unique_filename never entered
get_unique_filename_step_blind(fs, dir, filename, candidate, counter) ==
  [candidate |-> candidate, counter |-> counter, found |-> TRUE]

\* one evaluation of the while condition of get_unique_filename and, when it
\* holds, one run of the loop body
get_unique_filename_step(fs, dir, filename, candidate, counter) ==
  LET ext == pathinfo_extension(filename)
      base == pathinfo_filename(filename)
      suffix == <<" ", "(">> \o IntToString(counter) \o <<")">>
  IN IF file_exists(fs, dir, candidate)
     THEN [candidate |-> IF ~Falsy(ext) THEN base \o suffix \o <<".">> \o ext
                         ELSE base \o suffix,
           counter |-> counter + 1, found |-> FALSE]
     ELSE [candidate |-> candidate, counter |-> counter, found |-> TRUE]

(***************************************************************************)
(* The registry file: json_encode / json_decode as a token stream, so that *)
(* a partly written file is a proper prefix of the encoding.               *)
(***************************************************************************)
RECURSIVE EncodePhotos(_)
EncodePhotos(photos) ==
  IF photos = <<>> THEN <<>>
  ELSE <<[k |-> "photo", v |-> Head(photos)]>> \o EncodePhotos(Tail(photos))

RECURSIVE EncodeAlbums(_)
EncodeAlbums(albums) ==
  IF albums = <<>> THEN <<>>
  ELSE <<[k |-> "album", v |-> Head(albums).id]>> \o EncodePhotos(Head(albums).photos)
         \o EncodeAlbums(Tail(albums))

\* json_encode(['albums' => albums])
json_encode(albums) == <<[k |-> "open"]>> \o EncodeAlbums(albums) \o <<[k |-> "close"]>>

\* the text is a complete document: json_decode does not return null
json_valid(raw) ==
  /\ Len(raw) >= 2
  /\ raw[1].k = "open"
  /\ raw[Len(raw)].k = "close"
  /\ \A i \in 2..(Len(raw) - 1) : raw[i].k \in {"album", "photo"}
  /\ Len(raw) > 2 => raw[2].k = "album"

RECURSIVE DecodeAlbums(_, _)
DecodeAlbums(toks, acc) ==
  IF toks = <<>> THEN acc
  ELSE IF Head(toks).k = "album"
       THEN DecodeAlbums(Tail(toks), Append(acc, [id |-> Head(toks).v, photos |-> <<>>]))
       ELSE DecodeAlbums(Tail(toks),
              [acc EXCEPT ![Len(acc)].photos = Append(@, Head(toks).v)])

\* mutant: the decoded record is dropped, as if json_decode had failed
read_albums_data_empty(raw) == <<>>

\* read_albums_data: the albums of the registry file, none when it does not decode
read_albums_data(raw) ==
  IF json_valid(raw) THEN DecodeAlbums(SubSeq(raw, 2, Len(raw) - 1), <<>>) ELSE <<>>

AlbumIds(albums) == {albums[i].id : i \in 1..Len(albums)}

AlbumPhotos(albums, id) ==
  IF id \in AlbumIds(albums)
  THEN albums[CHOOSE i \in 1..Len(albums) : albums[i].id = id].photos
  ELSE <<>>

\* the single change of an ingestion: the photo is added at the end of its
\* album, and the album at the end of the registry when it is not there yet
AppendPhoto(albums, id, photo) ==
  IF id \in AlbumIds(albums)
  THEN [i \in 1..Len(albums) |->
          IF albums[i].id = id THEN [albums[i] EXCEPT !.photos = Append(@, photo)]
          ELSE albums[i]]
  ELSE Append(albums, [id |-> id, photos |-> <<photo>>])

AllPhotos(albums) ==
  UNION {{albums[i].photos[j] : j \in 1..Len(albums[i].photos)} : i \in 1..Len(albums)}

(***************************************************************************)
(* Validation and thumbnailing.                                            *)
(***************************************************************************)
UPLOAD_ERR_OK == 0
MAX_FILE_SIZE == 3
ALLOWED_MIME_TYPES == {"image/jpeg", "image/png", "image/webp", "image/gif"}

\* mutant: a file of exactly the ceiling size is refused
validate_uploaded_file_inclusive(file) ==
  IF file.error # UPLOAD_ERR_OK THEN "UploadError"
  ELSE IF file.size >= MAX_FILE_SIZE THEN "FileTooLarge"
  ELSE IF file.mime \notin ALLOWED_MIME_TYPES THEN "UnsupportedType"
  ELSE "ok"

\* validate_uploaded_file: "ok", or the reason of the exception it throws
validate_uploaded_file(file) ==
  IF file.error # UPLOAD_ERR_OK THEN "UploadError"
  ELSE IF file.size > MAX_FILE_SIZE THEN "FileTooLarge"
  ELSE IF file.mime \notin ALLOWED_MIME_TYPES THEN "UnsupportedType"
  ELSE "ok"

ThumbExtensions ==
  { <<"j", "p", "g">>, <<"j", "p", "e", "g">>, <<"p", "n", "g">>,
    <<"w", "e", "b", "p">>, <<"g", "i", "f">> }

\* the ways create_thumbnail can end for a stored source file:
\*   "throw"       an exception leaves the function (unsupported extension;
\*                 a source that does not decode, where the runtime raises one)
\*   "written"     imagejpeg wrote the thumbnail, the path is returned
\*   "not_written" imagejpeg returned false, the path is returned all the same
create_thumbnail_outcomes(sourceName, decodes) ==
  IF strtolower(pathinfo_extension(sourceName)) \notin ThumbExtensions
  THEN {"throw"}
  ELSE (IF decodes THEN {} ELSE {"throw"}) \cup {"written", "not_written"}

\* $thumbDir . '/' . pathinfo($thumbnailName, PATHINFO_FILENAME) . '.jpg'
ThumbPath(albumId, thumbnailName) ==
  <<albumId, pathinfo_filename(thumbnailName) \o <<".", "j", "p", "g">>>>

\* the coordinator's tier gate: an unknown tier rejects the file
ClassifyGate(folderType) ==
  IF folderType = <<>> THEN "UnclassifiableTier" ELSE "ok"

(***************************************************************************)
(* Upload names the classifier is exercised on: every concatenation of at  *)
(* most MaxPieces pieces.                                                  *)
(***************************************************************************)
NamePieces ==
  { s_light, <<"M", "a", "X">>, <<"_">>, <<" ">>, <<"/">>, <<"\\">>, <<"a">> }

RECURSIVE Concat(_)
Concat(ps) == IF ps = <<>> THEN <<>> ELSE Head(ps) \o Concat(Tail(ps))

UploadNames ==
  { Concat(ps) : ps \in UNION { [1..n -> NamePieces] : n \in 0..MaxPieces } }

NoResult == [folderType |-> <<"?">>, cleanName |-> <<"?">>]

(***************************************************************************)
(* Uploaded files of the ingestion model.                                  *)
(***************************************************************************)
n_a_light_1_jpg == <<"a", "_", "l", "i", "g", "h", "t", "_", "1", ".", "j", "p", "g">>
n_max_b_jpg == <<"m", "a", "x", "/", "b", ".", "j", "p", "g">>
n_c_jpg == <<"c", ".", "j", "p", "g">>
n_light_e_jpg == <<"l", "i", "g", "h", "t", "/", "e", ".", "j", "p", "g">>

\* a sound light file named by token; a max file, at the size ceiling, whose
\* image does not decode; a file without tier; a light file above the ceiling
UploadKinds ==
  { [name |-> n_a_light_1_jpg, error |-> 0, size |-> 1, mime |-> "image/jpeg", decodes |-> TRUE],
    [name |-> n_max_b_jpg, error |-> 0, size |-> 3, mime |-> "image/jpeg", decodes |-> FALSE],
    [name |-> n_c_jpg, error |-> 0, size |-> 1, mime |-> "image/jpeg", decodes |-> TRUE],
    [name |-> n_light_e_jpg, error |-> 0, size |-> 4, mime |-> "image/jpeg", decodes |-> TRUE] }

Batches(maxLen) == UNION { [1..n -> UploadKinds] : n \in 1..maxLen }

Workers == {1, 2}

NoCur ==
  [tier |-> <<>>, filename |-> <<>>, candidate |-> <<>>, counter |-> 0,
   content |-> 0, thumb |-> <<>>, data |-> <<>>]

NoReq == [album |-> 0, files |-> <<>>, before |-> <<>>]

VARIABLES
  cname,     \* the upload name handed to parse_upload_path
  cresult,   \* [folderType, cleanName] returned by parse_upload_path
  cverdict,  \* the coordinator's decision on the tier
  cpc,       \* "start" -> "parsed" -> "gated"; "off" outside the classifier runs
  files,     \* storage tree: <<albumId, tier, name>> -> content of the stored file
  thumbs,    \* thumbnail tree: the thumbnail paths that exist
  regfile,   \* content of DATA_FILE, a token stream
  nextId,    \* next fresh identifier (generate_uuid never repeats)
  admitted,     \* files of the upload requests started so far
  storeLog,  \* history: every completed file write, [path, content], in order
  pc,        \* per worker: the step of its request
  req,       \* per worker: [album, files, before] of its request
  idx,       \* per worker: index of the file being processed
  cur,       \* per worker: locals of the file being processed
  accepted,  \* per worker: accepted photos of the response, [idx, photo]
  failed,    \* per worker: per-file failures of the response, [idx, reason]
  arg,       \* a helper function on its own: the argument of the call
  ret,       \* a helper function on its own: the value returned
  fpc,       \* a helper function on its own: "off", "call", or what was applied
  zreq,      \* download: the requested albums, [folder, name] each
  zpc,       \* download: the statement stream_zip is at; "off" outside downloads
  zalb,      \* download: index of the album the builder is adding
  zvisit,    \* download: entries of that album's folder the iterator has yielded
  zadds,     \* download: the addEmptyDir / addFile calls so far, in order
  ztmp,      \* download: the temporary file, <<>> if absent, <<size>> if present
  zhdr,      \* download: <<>> before header(), <<Content-Length>> after
  zchunks,   \* download: sizes of the chunks echoed, in order
  zbody,     \* download: body bytes that reached the client
  zconn,     \* download: the client is still connected
  zout,      \* download: "running", "exit", or the message of the exception
  jalbums,   \* browser download: the albums handed to downloadMultipleAlbums
  jpc,       \* browser download: "album", "photo", "done", "thrown"; "off" outside
  jalb,      \* browser download: index of the album of the outer loop
  jph,       \* browser download: index of the photo of the inner loop
  jfolders,  \* browser download: the folders of the JSZip object
  jfiles,    \* browser download: the files of the JSZip object, [folder, file, src]
  jtotal,    \* browser download: totalAdded
  jlog,      \* browser download: history of the folder.file calls, [alb, file, src]
  ufiles,    \* uploadAlbum: the files handed to the call
  upc,       \* uploadAlbum: "first", "await", "next", "final", "resolved", "rejected", "hung"; "off" outside
  uflight,   \* uploadAlbum: the requests sent and not yet answered
  usent,     \* uploadAlbum: history of the requests sent, in order
  utotal,    \* uploadAlbum: totalUploaded
  ui,        \* uploadAlbum: the loop variable i over remainingFiles
  ualbum,    \* uploadAlbum: <<>> before the first response, <<createResult.album.id>> after
  uloaded,   \* uploadAlbum: event.loaded of the last progress event of the request in flight
  uprog,     \* uploadAlbum: history of the values passed to onProgress
  userver,   \* uploadAlbum: files the server has ingested, in order
  uerr,      \* uploadAlbum: <<>>, or the error the call rejected with and the batch it came from
  uresp,     \* uploadAlbum: history of what came back, [k, kind, status], in order
  dpc,       \* ensure_directory: per caller "call", "mkdir", "returned", "failed"; "off" outside
  ddir,      \* ensure_directory: the directory exists
  dwarn,     \* ensure_directory: callers whose mkdir raised a warning
  gtotal,    \* downloadAlbumAsZip: totalPhotos
  gpc,       \* downloadAlbumAsZip: "fetch", "generate", "done"; "off" outside
  gpending,  \* downloadAlbumAsZip: photos whose fetch has not settled
  gloaded,   \* downloadAlbumAsZip: loadedPhotos
  gpct,      \* downloadAlbumAsZip: metadata.percent of the last update of generateAsync
  gprog      \* downloadAlbumAsZip: history of the values passed to onProgress

cvars == <<cname, cresult, cverdict, cpc>>

ivars == <<files, thumbs, regfile, nextId, admitted, storeLog, pc, req, idx, cur, accepted, failed>>

fvars == <<arg, ret, fpc>>

zvars == <<zreq, zpc, zalb, zvisit, zadds, ztmp, zhdr, zchunks, zbody, zconn, zout>>

jvars == <<jalbums, jpc, jalb, jph, jfolders, jfiles, jtotal, jlog>>

uvars == <<ufiles, upc, uflight, usent, utotal, ui, ualbum, uloaded, uprog, userver, uerr, uresp>>

dvars == <<dpc, ddir, dwarn>>

gvars == <<gtotal, gpc, gpending, gloaded, gpct, gprog>>

\* what the steps of each part leave alone
nonIngest == <<cvars, fvars, zvars, jvars, uvars, dvars, gvars>>

nonClassify == <<ivars, fvars, zvars, jvars, uvars, dvars, gvars>>

nonFunction == <<cvars, ivars, zvars, jvars, uvars, dvars, gvars>>

nonDownload == <<cvars, ivars, fvars, jvars, uvars, dvars, gvars>>

nonBrowser == <<cvars, ivars, fvars, zvars, uvars, dvars, gvars>>

nonUpload == <<cvars, ivars, fvars, zvars, jvars, dvars, gvars>>

nonEnsure == <<cvars, ivars, fvars, zvars, jvars, uvars, gvars>>

nonProgress == <<cvars, ivars, fvars, zvars, jvars, uvars, dvars>>

vars == <<cname, cresult, cverdict, cpc,
          files, thumbs, regfile, nextId, admitted, storeLog, pc, req, idx, cur, accepted, failed,
          arg, ret, fpc,
          zreq, zpc, zalb, zvisit, zadds, ztmp, zhdr, zchunks, zbody, zconn, zout,
          jalbums, jpc, jalb, jph, jfolders, jfiles, jtotal, jlog,
          ufiles, upc, uflight, usent, utotal, ui, ualbum, uloaded, uprog, userver, uerr, uresp,
          dpc, ddir, dwarn,
          gtotal, gpc, gpending, gloaded, gpct, gprog>>

WorkersIdle ==
  /\ pc = [w \in Workers |-> "idle"]
  /\ req = [w \in Workers |-> NoReq]
  /\ idx = [w \in Workers |-> 0]
  /\ cur = [w \in Workers |-> NoCur]
  /\ accepted = [w \in Workers |-> <<>>]
  /\ failed = [w \in Workers |-> <<>>]

\* empty storage and an empty, well-formed registry
InitIngest ==
  /\ files = <<>>
  /\ thumbs = {}
  /\ regfile = json_encode(<<>>)
  /\ nextId = 1
  /\ admitted = 0
  /\ storeLog = <<>>
  /\ WorkersIdle

ClassifierOff ==
  /\ cname = <<>>
  /\ cresult = NoResult
  /\ cverdict = "none"
  /\ cpc = "off"

FunctionOff ==
  /\ arg = <<>>
  /\ ret = <<>>
  /\ fpc = "off"

ServerOff ==
  /\ zreq = <<>>
  /\ zpc = "off"
  /\ zalb = 0
  /\ zvisit = {}
  /\ zadds = <<>>
  /\ ztmp = <<>>
  /\ zhdr = <<>>
  /\ zchunks = <<>>
  /\ zbody = 0
  /\ zconn = TRUE
  /\ zout = "running"

BrowserOff ==
  /\ jalbums = <<>>
  /\ jpc = "off"
  /\ jalb = 0
  /\ jph = 0
  /\ jfolders = {}
  /\ jfiles = {}
  /\ jtotal = 0
  /\ jlog = <<>>

DownloadOff == ServerOff /\ BrowserOff

UploadOff ==
  /\ ufiles = <<>>
  /\ upc = "off"
  /\ uflight = {}
  /\ usent = <<>>
  /\ utotal = 0
  /\ ui = 0
  /\ ualbum = <<>>
  /\ uloaded = 0
  /\ uprog = <<>>
  /\ userver = <<>>
  /\ uerr = <<>>
  /\ uresp = <<>>

EnsureOff ==
  /\ dpc = <<>>
  /\ ddir = FALSE
  /\ dwarn = {}

ProgressOff ==
  /\ gtotal = 0
  /\ gpc = "off"
  /\ gpending = {}
  /\ gloaded = 0
  /\ gpct = 0
  /\ gprog = <<>>

ClientOff == UploadOff /\ EnsureOff /\ ProgressOff

(***************************************************************************)
(* The classifier on its own.                                              *)
(***************************************************************************)
InitClassify ==
  /\ cname \in UploadNames
  /\ cresult = NoResult
  /\ cverdict = "none"
  /\ cpc = "start"
  /\ InitIngest
  /\ ClientOff
  /\ FunctionOff
  /\ DownloadOff

ParseUploadPath ==
  /\ cpc = "start"
  /\ cresult' = parse_upload_path(cname)
  /\ cpc' = "parsed"
  /\ UNCHANGED <<cname, cverdict>>
  /\ UNCHANGED nonClassify

GateTier ==
  /\ cpc = "parsed"
  /\ cverdict' = ClassifyGate(cresult.folderType)
  /\ cpc' = "gated"
  /\ UNCHANGED <<cname, cresult>>
  /\ UNCHANGED nonClassify

NextClassify == ParseUploadPath \/ GateTier

SpecClassify == InitClassify /\ [][NextClassify]_vars

(***************************************************************************)
(* Ingestion: one request per worker at a time, its files one after the    *)
(* other: validate, classify, choose the name, write the file, write the   *)
(* thumbnail, append to the registry.                                      *)
(***************************************************************************)
ThePhoto(w) ==
  [id |-> cur[w].content,
   tier |-> cur[w].tier,
   storedPath |-> <<req[w].album, cur[w].tier, cur[w].candidate>>,
   thumbnailPath |-> cur[w].thumb]

\* the request goes on to its next file, or to its response after the last
Advance(w) ==
  /\ pc' = [pc EXCEPT ![w] = IF idx[w] = Len(req[w].files) THEN "done" ELSE "file"]
  /\ idx' = [idx EXCEPT ![w] = @ + 1]
  /\ cur' = [cur EXCEPT ![w] = NoCur]

\* mutant: the first failure ends the batch
Reject_abort(w, reason) ==
  /\ failed' = [failed EXCEPT ![w] = Append(@, [idx |-> idx[w], reason |-> reason])]
  /\ pc' = [pc EXCEPT ![w] = "done"]
  /\ cur' = [cur EXCEPT ![w] = NoCur]
  /\ UNCHANGED <<idx, accepted>>

Reject(w, reason) ==
  /\ failed' = [failed EXCEPT ![w] = Append(@, [idx |-> idx[w], reason |-> reason])]
  /\ Advance(w)
  /\ UNCHANGED accepted

\* a request arrives: a new album, or an album of the registry
StartRequest(w, maxLen) ==
  /\ pc[w] \in {"idle", "done"}
  /\ \E batch \in Batches(IF maxLen < MaxFiles - admitted THEN maxLen ELSE MaxFiles - admitted),
        target \in {0} \cup AlbumIds(read_albums_data(regfile)) :
       LET album == IF target = 0 THEN nextId ELSE target
       IN /\ req' = [req EXCEPT ![w] =
                       [album |-> album, files |-> batch,
                        before |-> AlbumPhotos(read_albums_data(regfile), album)]]
          /\ nextId' = IF target = 0 THEN nextId + 1 ELSE nextId
          /\ admitted' = admitted + Len(batch)
  /\ pc' = [pc EXCEPT ![w] = "file"]
  /\ idx' = [idx EXCEPT ![w] = 1]
  /\ cur' = [cur EXCEPT ![w] = NoCur]
  /\ accepted' = [accepted EXCEPT ![w] = <<>>]
  /\ failed' = [failed EXCEPT ![w] = <<>>]
  /\ UNCHANGED <<files, thumbs, regfile, storeLog>>
  /\ UNCHANGED nonIngest

\* validate_uploaded_file, then parse_upload_path and the tier gate
BeginFile(w) ==
  /\ pc[w] = "file"
  /\ LET f == req[w].files[idx[w]]
         parsed == parse_upload_path(f.name)
         clean == sanitize_filename(parsed.cleanName)
     IN IF validate_uploaded_file(f) # "ok"
        THEN Reject(w, validate_uploaded_file(f))
        ELSE IF ClassifyGate(parsed.folderType) # "ok"
        THEN Reject(w, ClassifyGate(parsed.folderType))
        ELSE /\ cur' = [cur EXCEPT ![w] =
                          [NoCur EXCEPT !.tier = parsed.folderType, !.filename = clean,
                                        !.candidate = clean, !.counter = 1]]
             /\ pc' = [pc EXCEPT ![w] = "unique"]
             /\ UNCHANGED <<idx, accepted, failed>>
  /\ UNCHANGED <<files, thumbs, regfile, nextId, admitted, storeLog, req>>
  /\ UNCHANGED nonIngest

\* get_unique_filename: one test of the loop condition
UniqueName(w) ==
  /\ pc[w] = "unique"
  /\ LET r == get_unique_filename_step(files, <<req[w].album, cur[w].tier>>,
                                       cur[w].filename, cur[w].candidate, cur[w].counter)
     IN /\ cur' = [cur EXCEPT ![w].candidate = r.candidate, ![w].counter = r.counter]
        /\ pc' = [pc EXCEPT ![w] = IF r.found THEN "store" ELSE "unique"]
  /\ UNCHANGED <<files, thumbs, regfile, nextId, admitted, storeLog, req, idx, accepted, failed>>
  /\ UNCHANGED nonIngest

\* mutant: the outcome of the write is not looked at
StoreFile_unchecked(w) ==
  /\ pc[w] = "store"
  /\ \E written \in BOOLEAN :
       LET path == <<req[w].album, cur[w].tier, cur[w].candidate>>
       IN /\ files' = IF written THEN (path :> nextId) @@ files ELSE files
          /\ storeLog' = IF written THEN Append(storeLog, [path |-> path, content |-> nextId])
                         ELSE storeLog
  /\ cur' = [cur EXCEPT ![w].content = nextId]
  /\ nextId' = nextId + 1
  /\ pc' = [pc EXCEPT ![w] = "thumb"]
  /\ UNCHANGED <<thumbs, regfile, admitted, req, idx, accepted, failed>>
  /\ UNCHANGED nonIngest

\* the uploaded file is moved to <album>/<tier>/<candidate>, replacing
\* whatever is there; or the write fails and the file is reported
StoreFile(w) ==
  /\ pc[w] = "store"
  /\ LET path == <<req[w].album, cur[w].tier, cur[w].candidate>>
     IN \/ /\ files' = (path :> nextId) @@ files
           /\ storeLog' = Append(storeLog, [path |-> path, content |-> nextId])
           /\ cur' = [cur EXCEPT ![w].content = nextId]
           /\ nextId' = nextId + 1
           /\ pc' = [pc EXCEPT ![w] = "thumb"]
           /\ UNCHANGED <<idx, accepted, failed>>
        \/ /\ Reject(w, "IOFailure")
           /\ UNCHANGED <<files, storeLog, nextId>>
  /\ UNCHANGED <<thumbs, regfile, admitted, req>>
  /\ UNCHANGED nonIngest

\* create_thumbnail for the stored file
Thumbnail(w) ==
  /\ pc[w] = "thumb"
  /\ LET tp == ThumbPath(req[w].album, cur[w].candidate)
     IN \E o \in create_thumbnail_outcomes(cur[w].candidate, req[w].files[idx[w]].decodes) :
          \/ /\ o = "throw"
             /\ Reject(w, "ThumbnailFailure")
             /\ UNCHANGED thumbs
          \/ /\ o # "throw"
             /\ thumbs' = IF o = "written" THEN thumbs \cup {tp} ELSE thumbs
             /\ cur' = [cur EXCEPT ![w].thumb = tp]
             /\ pc' = [pc EXCEPT ![w] = "read"]
             /\ UNCHANGED <<idx, accepted, failed>>
  /\ UNCHANGED <<files, regfile, nextId, admitted, storeLog, req>>
  /\ UNCHANGED nonIngest

\* registry append, first half: read_albums_data and the change in memory
ReadRegistry(w) ==
  /\ pc[w] = "read"
  /\ cur' = [cur EXCEPT ![w].data =
               AppendPhoto(read_albums_data(regfile), req[w].album, ThePhoto(w))]
  /\ pc' = [pc EXCEPT ![w] = "put_open"]
  /\ UNCHANGED <<files, thumbs, regfile, nextId, admitted, storeLog, req, idx, accepted, failed>>
  /\ UNCHANGED nonIngest

\* write_albums_data, file_put_contents opening DATA_FILE: the file is truncated
PutOpen(w) ==
  /\ pc[w] = "put_open"
  /\ regfile' = <<>>
  /\ pc' = [pc EXCEPT ![w] = "put_write"]
  /\ UNCHANGED <<files, thumbs, nextId, admitted, storeLog, req, idx, cur, accepted, failed>>
  /\ UNCHANGED nonIngest

\* write_albums_data, file_put_contents writing the encoded record
PutWrite(w) ==
  /\ pc[w] = "put_write"
  /\ regfile' = json_encode(cur[w].data)
  /\ accepted' = [accepted EXCEPT ![w] = Append(@, [idx |-> idx[w], photo |-> ThePhoto(w)])]
  /\ Advance(w)
  /\ UNCHANGED <<files, thumbs, nextId, admitted, storeLog, req, failed>>
  /\ UNCHANGED nonIngest

\* the process of a request dies; what it wrote so far stays.  Inside
\* file_put_contents any proper prefix of the record may have reached the file.
Crash(w) ==
  /\ pc[w] \notin {"idle", "done"}
  /\ IF pc[w] = "put_write"
     THEN \E k \in 0..(Len(json_encode(cur[w].data)) - 1) :
            regfile' = SubSeq(json_encode(cur[w].data), 1, k)
     ELSE UNCHANGED regfile
  /\ pc' = [pc EXCEPT ![w] = "idle"]
  /\ req' = [req EXCEPT ![w] = NoReq]
  /\ idx' = [idx EXCEPT ![w] = 0]
  /\ cur' = [cur EXCEPT ![w] = NoCur]
  /\ accepted' = [accepted EXCEPT ![w] = <<>>]
  /\ failed' = [failed EXCEPT ![w] = <<>>]
  /\ UNCHANGED <<files, thumbs, nextId, admitted, storeLog>>
  /\ UNCHANGED nonIngest

\* requests served one after the other, by one worker
Init == InitIngest /\ ClassifierOff /\ FunctionOff /\ DownloadOff /\ ClientOff

Next ==
  \/ StartRequest(1, MaxFiles)
  \/ BeginFile(1)
  \/ UniqueName(1)
  \/ StoreFile(1)
  \/ Thumbnail(1)
  \/ ReadRegistry(1)
  \/ PutOpen(1)
  \/ PutWrite(1)
  \/ Crash(1)

Spec == Init /\ [][Next]_vars

(***************************************************************************)
(* Overlapping requests: two workers interleave step by step.  They start  *)
(* from an album that an earlier request created with one photo.           *)
(***************************************************************************)
FirstPath == <<1, s_light, s_photo \o <<".", "j", "p", "g">>>>

FirstPhoto ==
  [id |-> 2, tier |-> s_light, storedPath |-> FirstPath,
   thumbnailPath |-> ThumbPath(1, FirstPath[3])]

InitConc ==
  /\ files = (FirstPath :> 2)
  /\ thumbs = {FirstPhoto.thumbnailPath}
  /\ regfile = json_encode(<<[id |-> 1, photos |-> <<FirstPhoto>>]>>)
  /\ nextId = 3
  /\ admitted = 0
  /\ storeLog = <<[path |-> FirstPath, content |-> 2]>>
  /\ WorkersIdle
  /\ ClientOff
  /\ ClassifierOff
  /\ FunctionOff
  /\ DownloadOff

\* each worker serves one request
Arrive(w) == pc[w] = "idle" /\ StartRequest(w, MaxConcBatch)

NextConc ==
  \/ \E w \in Workers : Arrive(w)
  \/ \E w \in Workers : BeginFile(w)
  \/ \E w \in Workers : UniqueName(w)
  \/ \E w \in Workers : StoreFile(w)
  \/ \E w \in Workers : Thumbnail(w)
  \/ \E w \in Workers : ReadRegistry(w)
  \/ \E w \in Workers : PutOpen(w)
  \/ \E w \in Workers : PutWrite(w)

SpecConc == InitConc /\ [][NextConc]_vars

(***************************************************************************)
(* sanitize_filename on its own.                                           *)
(***************************************************************************)
SanitizePieces == { <<"a">>, <<".">>, <<"?">>, <<" ">>, <<"/">>, <<"\\">>, <<"0">> }

SanitizeNames ==
  { Concat(ps) : ps \in UNION { [1..n -> SanitizePieces] : n \in 0..MaxPieces } }

InitSanitize ==
  /\ arg \in SanitizeNames
  /\ ret = <<>>
  /\ fpc = "call"
  /\ InitIngest
  /\ ClientOff
  /\ ClassifierOff
  /\ DownloadOff

SanitizeFilename ==
  /\ fpc = "call"
  /\ ret' = sanitize_filename(arg)
  /\ fpc' = "sanitize_filename"
  /\ UNCHANGED arg
  /\ UNCHANGED nonFunction

NextSanitize == SanitizeFilename

SpecSanitize == InitSanitize /\ [][NextSanitize]_vars

(***************************************************************************)
(* validate_uploaded_file on its own.  An uploaded file is the $_FILES     *)
(* entry together with what the environment answers: whether finfo_open    *)
(* gives a handle and what finfo_file reads from the bytes ("false" when   *)
(* it fails).                                                              *)
(***************************************************************************)
UploadedFiles ==
  [error : 0..4, size : 0..(MAX_FILE_SIZE + 2), finfo : BOOLEAN,
   sniffed : {"image/jpeg", "image/png", "text/plain", "false"},
   type : {"image/jpeg", "text/plain", ""}]

\* $detected = $finfo ? finfo_file($finfo, $file['tmp_name']) : ($file['type'] ?? '')
detected_type(file) == IF file.finfo THEN file.sniffed ELSE file.type

InitValidate ==
  /\ arg \in UploadedFiles
  /\ ret = <<>>
  /\ fpc = "call"
  /\ InitIngest
  /\ ClientOff
  /\ ClassifierOff
  /\ DownloadOff

ValidateUploadedFile ==
  /\ fpc = "call"
  /\ ret' = validate_uploaded_file(
              [error |-> arg.error, size |-> arg.size, mime |-> detected_type(arg)])
  /\ fpc' = "validate_uploaded_file"
  /\ UNCHANGED arg
  /\ UNCHANGED nonFunction

NextValidate == ValidateUploadedFile

SpecValidate == InitValidate /\ [][NextValidate]_vars

(***************************************************************************)
(* The geometry of create_thumbnail.  $targetSize / $width and             *)
(* $width * $ratio are PHP floats, IEEE 754 doubles.  A float is kept as   *)
(* [m, e]: m its 53 significant bits followed by one 0 bit, cut into three *)
(* limbs of 18 bits, most significant first, and e its exponent, of value  *)
(*   (m[1] * 2^36 + m[2] * 2^18 + m[3]) * 2^(e - 53),  m[1] >= 2^17.       *)
(* Division and multiplication round to nearest, ties to even.  The limbs  *)
(* keep every intermediate product below 2^31 for operands below 2^12.     *)
(***************************************************************************)
\* THUMBNAIL_SIZE of config.php
THUMBNAIL_SIZE == 300

RECURSIVE Pow2(_)
Pow2(n) == IF n = 0 THEN 1 ELSE 2 * Pow2(n - 1)

\* one limb holds 18 bits
LIMB == Pow2(18)

\* number of binary digits of c, 0 for 0
BitLen(c) == CHOOSE s \in 0..30 : c < Pow2(s) /\ (s = 0 \/ Pow2(s - 1) <= c)

\* rounds 54 bits (the last one the guard bit) and the sticky flag of what
\* follows them to 53 bits, ties to even
RoundDouble(l1, l2, l3, sticky, e) ==
  LET guard == l3 % 2
      lsb == (l3 \div 2) % 2
      up == guard = 1 /\ (sticky \/ lsb = 1)
      s3 == l3 - guard + 2
      s2 == l2 + s3 \div LIMB
      s1 == l1 + s2 \div LIMB
  IN IF ~up THEN [m |-> <<l1, l2, l3 - guard>>, e |-> e]
     ELSE IF s1 = LIMB THEN [m |-> <<LIMB \div 2, 0, 0>>, e |-> e + 1]
     ELSE [m |-> <<s1, s2 % LIMB, s3 % LIMB>>, e |-> e]

\* $a / $b for integers 1 <= a, b < 2^12
FloatDiv(a, b) ==
  LET e == IF a >= b THEN BitLen(a \div b) - 1 ELSE 0 - (CHOOSE k \in 1..12 : a * Pow2(k) >= b /\ a * Pow2(k - 1) < b)
      n == IF e < 0 THEN a * Pow2(0 - e) ELSE a
      d == IF e > 0 THEN b * Pow2(e) ELSE b
      t1 == n * Pow2(17)
      t2 == (t1 % d) * LIMB
      t3 == (t2 % d) * LIMB
  IN RoundDouble(t1 \div d, t2 \div d, t3 \div d, t3 % d # 0, e)

\* $n * $f for an integer 1 <= n < 2^12 and a float f
FloatMul(n, f) ==
  LET p3 == f.m[3] * n
      p2 == f.m[2] * n + p3 \div LIMB
      p1 == f.m[1] * n + p2 \div LIMB
      c == p1 \div LIMB
      s == BitLen(c)
      lo == Pow2(s)
      hi == LIMB \div lo
  IN RoundDouble(c * hi + (p1 % LIMB) \div lo,
                 ((p1 % LIMB) % lo) * hi + (p2 % LIMB) \div lo,
                 ((p2 % LIMB) % lo) * hi + (p3 % LIMB) \div lo,
                 (p3 % LIMB) % lo # 0,
                 f.e + s)

\* min($f, $g)
FloatMin(f, g) ==
  LET less == \/ g.e < f.e
              \/ /\ g.e = f.e
                 /\ \E i \in 1..3 : g.m[i] < f.m[i] /\ \A j \in 1..(i - 1) : g.m[j] = f.m[j]
  IN IF less THEN g ELSE f

\* (int) floor($f) for a float 0 <= f < 2^18
FloatFloor(f) == IF f.e < 0 THEN 0 ELSE f.m[1] \div Pow2(17 - f.e)

\* largest width and height of the dense range of source sizes
MaxDim == 300

\* source sizes: every one up to MaxDim, and some far above the target
Dims == (1..MaxDim) \cup {600, 1000, 4000}

Max(a, b) == IF a >= b THEN a ELSE b

\* mutant: the larger of the two ratios, which fills the square
create_thumbnail_geometry_fill(width, height) ==
  LET targetSize == THUMBNAIL_SIZE
      rw == FloatDiv(targetSize, width)
      rh == FloatDiv(targetSize, height)
      ratio == IF FloatMin(rw, rh) = rw THEN rh ELSE rw
      newWidth == Max(1, FloatFloor(FloatMul(width, ratio)))
      newHeight == Max(1, FloatFloor(FloatMul(height, ratio)))
  IN [canvas |-> <<targetSize, targetSize>>,
      newWidth |-> newWidth, newHeight |-> newHeight,
      dstX |-> (targetSize - newWidth) \div 2, dstY |-> (targetSize - newHeight) \div 2]

\* $ratio, $newWidth, $newHeight, the canvas and $dstX, $dstY of create_thumbnail
create_thumbnail_geometry(width, height) ==
  LET targetSize == THUMBNAIL_SIZE
      ratio == FloatMin(FloatDiv(targetSize, width), FloatDiv(targetSize, height))
      newWidth == Max(1, FloatFloor(FloatMul(width, ratio)))
      newHeight == Max(1, FloatFloor(FloatMul(height, ratio)))
  IN [canvas |-> <<targetSize, targetSize>>,
      newWidth |-> newWidth, newHeight |-> newHeight,
      dstX |-> (targetSize - newWidth) \div 2, dstY |-> (targetSize - newHeight) \div 2]

InitThumbnail ==
  /\ arg \in [width : Dims, height : Dims]
  /\ ret = <<>>
  /\ fpc = "call"
  /\ InitIngest
  /\ ClientOff
  /\ ClassifierOff
  /\ DownloadOff

CreateThumbnail ==
  /\ fpc = "call"
  /\ ret' = create_thumbnail_geometry(arg.width, arg.height)
  /\ fpc' = "create_thumbnail"
  /\ UNCHANGED arg
  /\ UNCHANGED nonFunction

NextThumbnail == CreateThumbnail

SpecThumbnail == InitThumbnail /\ [][NextThumbnail]_vars

(***************************************************************************)
(* Downloads: stream_zip with a builder that calls add_folder_to_zip once  *)
(* per requested album, the album's display name being the top-level       *)
(* folder.  An album folder is absent or a set of entries, each with its   *)
(* path relative to the album folder.                                      *)
(***************************************************************************)
\* most albums in one download request
MaxAlbums == 2

\* fread($handle, 65536)
CHUNK == 65536

NoFolder == [exists |-> FALSE, nodes |-> {}]

\* no folder; an empty folder; empty tier folders; one light photo; one light
\* photo that makes the archive exactly one chunk long; a photo in each tier
FolderKinds ==
  LET d_light == [path |-> <<"light">>, dir |-> TRUE, size |-> 0]
      d_max == [path |-> <<"max">>, dir |-> TRUE, size |-> 0]
      LightFile(size) == [path |-> <<"light", "a.jpg">>, dir |-> FALSE, size |-> size]
      MaxFile(size) == [path |-> <<"max", "a.jpg">>, dir |-> FALSE, size |-> size]
  IN { NoFolder,
       [exists |-> TRUE, nodes |-> {}],
       [exists |-> TRUE, nodes |-> {d_light, d_max}],
       [exists |-> TRUE, nodes |-> {d_light, LightFile(40000)}],
       [exists |-> TRUE, nodes |-> {d_light, LightFile(65314)}],
       [exists |-> TRUE, nodes |-> {d_light, LightFile(40000), d_max, MaxFile(100000)}] }

AlbumNames == {"A", "B"}

DownloadRequests ==
  UNION { [1..n -> [folder : FolderKinds, name : AlbumNames]] : n \in 1..MaxAlbums }

\* the entries of a ZipArchive after the given calls: one per local name, the
\* later call of a name replacing the earlier one
ZipNames(adds) == { adds[i].name : i \in 1..Len(adds) }

ZipEntry(adds, name) ==
  adds[CHOOSE i \in 1..Len(adds) :
         adds[i].name = name /\ \A j \in (i + 1)..Len(adds) : adds[j].name # name]

RECURSIVE ZipBytes(_, _)
ZipBytes(adds, names) ==
  IF names = {} THEN 0
  ELSE LET n == CHOOSE x \in names : TRUE
       IN 100 + ZipEntry(adds, n).size + ZipBytes(adds, names \ {n})

\* size of the file ZipArchive::close writes: the members, a header for each,
\* and the end record
ZipSize(adds) == 22 + ZipBytes(adds, ZipNames(adds))

\* feof($handle): the last fread came back short
feof(chunks) == chunks # <<>> /\ chunks[Len(chunks)] < CHUNK

RECURSIVE SumSeq(_)
SumSeq(q) == IF q = <<>> THEN 0 ELSE Head(q) + SumSeq(Tail(q))

InitDownload ==
  /\ zreq \in DownloadRequests
  /\ zpc = "tempnam"
  /\ zalb = 1
  /\ zvisit = {}
  /\ zadds = <<>>
  /\ ztmp = <<>>
  /\ zhdr = <<>>
  /\ zchunks = <<>>
  /\ zbody = 0
  /\ zconn = TRUE
  /\ zout = "running"
  /\ BrowserOff
  /\ InitIngest
  /\ ClientOff
  /\ ClassifierOff
  /\ FunctionOff

\* throw new RuntimeException(msg), after @unlink($tmp) where the code has it
Throw(msg, unlink) ==
  /\ zpc' = "thrown"
  /\ zout' = msg
  /\ ztmp' = IF unlink THEN <<>> ELSE ztmp

\* $tmp = tempnam(...): creates an empty file, or fails
Tempnam ==
  /\ zpc = "tempnam"
  /\ \/ /\ ztmp' = <<0>>
        /\ zpc' = "open"
        /\ UNCHANGED zout
     \/ Throw("Cannot create temporary file", FALSE)
  /\ UNCHANGED <<zreq, zalb, zvisit, zadds, zhdr, zchunks, zbody, zconn>>
  /\ UNCHANGED nonDownload

\* $zip->open($tmp, OVERWRITE | CREATE)
ZipOpen ==
  /\ zpc = "open"
  /\ \/ /\ zpc' = "build"
        /\ UNCHANGED <<ztmp, zout>>
     \/ Throw("Cannot create ZIP archive", TRUE)
  /\ UNCHANGED <<zreq, zalb, zvisit, zadds, zhdr, zchunks, zbody, zconn>>
  /\ UNCHANGED nonDownload

\* is_dir($folderPath) is false: add_folder_to_zip returns at once
SkipFolder ==
  /\ zpc = "build"
  /\ zalb <= Len(zreq)
  /\ ~zreq[zalb].folder.exists
  /\ zalb' = zalb + 1
  /\ UNCHANGED <<zreq, zpc, zvisit, zadds, ztmp, zhdr, zchunks, zbody, zconn, zout>>
  /\ UNCHANGED nonDownload

\* mutant: the member is named by its file name alone
add_folder_to_zip_entry_flat(zipPath, node, alb) ==
  [name |-> <<zipPath, node.path[Len(node.path)]>>, dir |-> node.dir, size |-> node.size,
   alb |-> alb]

\* what one round of the foreach adds: $zipPath . '/' . getSubPathname(), as
\* a folder entry for a directory and as a file entry otherwise
add_folder_to_zip_entry(zipPath, node, alb) ==
  [name |-> <<zipPath>> \o node.path, dir |-> node.dir, size |-> node.size, alb |-> alb]

\* the iterator may yield an entry once the directory holding it was yielded
\* (SELF_FIRST); the order among the entries of one directory is the file
\* system's
Yieldable(nodes, seen) ==
  { n \in nodes \ seen :
      Len(n.path) = 1 \/ \E d \in seen : d.dir /\ d.path = SubSeq(n.path, 1, Len(n.path) - 1) }

\* one round of the foreach of add_folder_to_zip
AddEntry ==
  /\ zpc = "build"
  /\ zalb <= Len(zreq)
  /\ zreq[zalb].folder.exists
  /\ \E n \in Yieldable(zreq[zalb].folder.nodes, zvisit) :
       /\ zadds' = Append(zadds, add_folder_to_zip_entry(zreq[zalb].name, n, zalb))
       /\ zvisit' = zvisit \cup {n}
  /\ UNCHANGED <<zreq, zpc, zalb, ztmp, zhdr, zchunks, zbody, zconn, zout>>
  /\ UNCHANGED nonDownload

\* the iterator is exhausted: add_folder_to_zip returns
FolderDone ==
  /\ zpc = "build"
  /\ zalb <= Len(zreq)
  /\ zreq[zalb].folder.exists
  /\ zvisit = zreq[zalb].folder.nodes
  /\ zalb' = zalb + 1
  /\ zvisit' = {}
  /\ UNCHANGED <<zreq, zpc, zadds, ztmp, zhdr, zchunks, zbody, zconn, zout>>
  /\ UNCHANGED nonDownload

\* new RecursiveDirectoryIterator($folderPath) throws when the folder cannot
\* be opened; stream_zip has no handler around $builder($zip)
BuilderThrows ==
  /\ zpc = "build"
  /\ zalb <= Len(zreq)
  /\ zreq[zalb].folder.exists
  /\ zvisit = {}
  /\ Throw("UnexpectedValueException", FALSE)
  /\ UNCHANGED <<zreq, zalb, zvisit, zadds, zhdr, zchunks, zbody, zconn>>
  /\ UNCHANGED nonDownload

\* $zip->close(): writes the archive; with no member, libzip writes nothing
\* and removes the file or leaves it empty
ZipClose ==
  /\ zpc = "build"
  /\ zalb > Len(zreq)
  /\ \/ /\ zpc' = "filesize"
        /\ IF zadds = <<>> THEN ztmp' \in {<<>>, <<0>>} ELSE ztmp' = <<ZipSize(zadds)>>
        /\ UNCHANGED zout
     \/ Throw("Failed to finalize ZIP archive", TRUE)
  /\ UNCHANGED <<zreq, zalb, zvisit, zadds, zhdr, zchunks, zbody, zconn>>
  /\ UNCHANGED nonDownload

\* $filesize = filesize($tmp), false for a missing file
Filesize ==
  /\ zpc = "filesize"
  /\ IF ztmp = <<>> \/ ztmp = <<0>>
     THEN Throw("ZIP archive is empty or unreadable", TRUE)
     ELSE /\ zpc' = "header"
          /\ UNCHANGED <<ztmp, zout>>
  /\ UNCHANGED <<zreq, zalb, zvisit, zadds, zhdr, zchunks, zbody, zconn>>
  /\ UNCHANGED nonDownload

\* the header() calls, Content-Length: $filesize among them
Header ==
  /\ zpc = "header"
  /\ zhdr' = ztmp
  /\ zpc' = "fopen"
  /\ UNCHANGED <<zreq, zalb, zvisit, zadds, ztmp, zchunks, zbody, zconn, zout>>
  /\ UNCHANGED nonDownload

\* $handle = fopen($tmp, 'rb')
Fopen ==
  /\ zpc = "fopen"
  /\ \/ /\ zpc' = "loop"
        /\ UNCHANGED <<ztmp, zout>>
     \/ Throw("Cannot read ZIP file", TRUE)
  /\ UNCHANGED <<zreq, zalb, zvisit, zadds, zhdr, zchunks, zbody, zconn>>
  /\ UNCHANGED nonDownload

\* one round of the while loop: fread, echo, connection_aborted, flush
ReadChunk ==
  /\ zpc = "loop"
  /\ ~feof(zchunks)
  /\ \/ /\ zpc' = "finish"
        /\ UNCHANGED <<zchunks, zbody>>
     \/ LET n == IF ztmp[1] - SumSeq(zchunks) < CHUNK THEN ztmp[1] - SumSeq(zchunks) ELSE CHUNK
        IN /\ zchunks' = Append(zchunks, n)
           /\ zbody' = IF zconn THEN zbody + n ELSE zbody
           /\ zpc' = IF zconn THEN "loop" ELSE "finish"
  /\ UNCHANGED <<zreq, zalb, zvisit, zadds, ztmp, zhdr, zconn, zout>>
  /\ UNCHANGED nonDownload

\* feof($handle) ends the loop
LoopEnd ==
  /\ zpc = "loop"
  /\ feof(zchunks)
  /\ zpc' = "finish"
  /\ UNCHANGED <<zreq, zalb, zvisit, zadds, ztmp, zhdr, zchunks, zbody, zconn, zout>>
  /\ UNCHANGED nonDownload

\* fclose($handle); @unlink($tmp); exit
Finish ==
  /\ zpc = "finish"
  /\ ztmp' = <<>>
  /\ zpc' = "done"
  /\ zout' = "exit"
  /\ UNCHANGED <<zreq, zalb, zvisit, zadds, zhdr, zchunks, zbody, zconn>>
  /\ UNCHANGED nonDownload

\* the client goes away; ignore_user_abort(true) lets the script run on
Disconnect ==
  /\ zpc \notin {"off", "done", "thrown"}
  /\ zconn
  /\ zconn' = FALSE
  /\ UNCHANGED <<zreq, zpc, zalb, zvisit, zadds, ztmp, zhdr, zchunks, zbody, zout>>
  /\ UNCHANGED nonDownload

NextDownload ==
  \/ Tempnam
  \/ ZipOpen
  \/ SkipFolder
  \/ AddEntry
  \/ FolderDone
  \/ BuilderThrows
  \/ ZipClose
  \/ Filesize
  \/ Header
  \/ Fopen
  \/ ReadChunk
  \/ LoopEnd
  \/ Finish
  \/ Disconnect

SpecDownload == InitDownload /\ [][NextDownload]_vars

\* the script keeps running: every step of stream_zip that can be taken is
\* taken in the end; nothing obliges the client to disconnect
SpecDownloadLive ==
  SpecDownload /\ WF_vars(NextDownload /\ zconn' = zconn)

(***************************************************************************)
(* The browser's multi-album download (downloadMultipleAlbums): one JSZip  *)
(* folder per album name, each photo fetched and filed under the last      *)
(* segment of its address.                                                 *)
(***************************************************************************)
\* s.split(c): the pieces between the occurrences of the character c
RECURSIVE split(_, _)
split(s, c) ==
  IF \A i \in 1..Len(s) : s[i] # c
  THEN <<s>>
  ELSE LET k == CHOOSE i \in 1..Len(s) : s[i] = c /\ \A j \in 1..(i - 1) : s[j] # c
       IN <<SubSeq(s, 1, k - 1)>> \o split(SubSeq(s, k + 1, Len(s)), c)

\* the photo lists an album may have: none; one light photo; the same photo
\* in both tiers; one photo whose address has no file extension.  The
\* addresses follow the storage tree, /<album>/<tier>/<file>.
PhotoLists(k) ==
  LET src(tier, file) == <<"/", DigitChar(k), "/", tier, "/">> \o file
  IN { <<>>,
       <<src("l", <<"a", ".", "j">>)>>,
       <<src("l", <<"a", ".", "j">>), src("m", <<"a", ".", "j">>)>>,
       <<src("l", <<"b", "?", "v">>)>> }

BrowserAlbums ==
  UNION { { a \in [1..n -> [name : AlbumNames, photos : UNION { PhotoLists(k) : k \in 1..n }]] :
              \A k \in 1..n : a[k].photos \in PhotoLists(k) } : n \in 1..MaxAlbums }

\* the name a fetched photo is filed under
PhotoFilename(src, totalAdded) ==
  LET urlParts == split(src, "/")
      filename == split(urlParts[Len(urlParts)], "?")[1]
  IN IF HasDot(filename) THEN filename
     ELSE s_photo \o <<"_">> \o IntToString(totalAdded + 1) \o <<".", "j", "p", "g">>

InitBrowser ==
  /\ jalbums \in BrowserAlbums
  /\ jpc = "album"
  /\ jalb = 1
  /\ jph = 0
  /\ jfolders = {}
  /\ jfiles = {}
  /\ jtotal = 0
  /\ jlog = <<>>
  /\ ServerOff
  /\ InitIngest
  /\ ClientOff
  /\ ClassifierOff
  /\ FunctionOff

\* const folder = zip.folder(album.name)
OpenFolder ==
  /\ jpc = "album"
  /\ jalb <= Len(jalbums)
  /\ jfolders' = jfolders \cup {jalbums[jalb].name}
  /\ jph' = 1
  /\ jpc' = "photo"
  /\ UNCHANGED <<jalbums, jalb, jfiles, jtotal, jlog>>
  /\ UNCHANGED nonBrowser

\* one round of the inner loop: fetch, response.ok, blob.size, folder.file;
\* the fetch ends "ok", with an error status, with an empty blob, or throws
FetchPhoto ==
  /\ jpc = "photo"
  /\ jph <= Len(jalbums[jalb].photos)
  /\ \E outcome \in {"ok", "status", "empty", "throws"} :
       LET src == jalbums[jalb].photos[jph]
           folder == jalbums[jalb].name
           filename == PhotoFilename(src, jtotal)
       IN /\ jph' = jph + 1
          /\ IF outcome = "ok"
             THEN /\ jfiles' = { e \in jfiles : ~(e.folder = folder /\ e.file = filename) }
                                 \cup {[folder |-> folder, file |-> filename, src |-> src]}
                  /\ jtotal' = jtotal + 1
                  /\ jlog' = Append(jlog, [alb |-> jalb, file |-> filename, src |-> src])
             ELSE UNCHANGED <<jfiles, jtotal, jlog>>
  /\ UNCHANGED <<jalbums, jpc, jalb, jfolders>>
  /\ UNCHANGED nonBrowser

\* the inner loop is over: next album
NextAlbum ==
  /\ jpc = "photo"
  /\ jph > Len(jalbums[jalb].photos)
  /\ jalb' = jalb + 1
  /\ jpc' = "album"
  /\ UNCHANGED <<jalbums, jph, jfolders, jfiles, jtotal, jlog>>
  /\ UNCHANGED nonBrowser

\* if (totalAdded === 0) throw ...; otherwise generateAsync and saveAs
Generate ==
  /\ jpc = "album"
  /\ jalb > Len(jalbums)
  /\ jpc' = IF jtotal = 0 THEN "thrown" ELSE "done"
  /\ UNCHANGED <<jalbums, jalb, jph, jfolders, jfiles, jtotal, jlog>>
  /\ UNCHANGED nonBrowser

NextBrowser == OpenFolder \/ FetchPhoto \/ NextAlbum \/ Generate

SpecBrowser == InitBrowser /\ [][NextBrowser]_vars

(***************************************************************************)
(* The client-side batcher (uploadAlbum): the files of an album go to the  *)
(* server in requests of at most BATCH_SIZE files, each awaited before the *)
(* next is built.  A progress value p is kept as the fraction              *)
(* [num, den] with p = num / den.                                          *)
(***************************************************************************)
\* most files handed to one uploadAlbum call
MaxUpload == 11

BATCH_SIZE == 5

\* album ids the create-album endpoint may answer with
ReturnedIds == {1, 2}

\* HTTP status codes of a response
StatusCodes == {200, 299, 300, 500}

\* event.total of the progress events of one request; event.loaded runs up to it
EventTotal == 2

Min(a, b) == IF a < b THEN a ELSE b

\* mutant: the end index is taken as inclusive
slice_inclusive(s, from, to) == SubSeq(s, Min(from, Len(s)) + 1, Min(to + 1, Len(s)))

\* Array.prototype.slice(from, to) for 0 <= from <= to
slice(s, from, to) == SubSeq(s, Min(from, Len(s)) + 1, Min(to, Len(s)))

\* mutant: every answered request counts as a success
xhr_onload_any(status) == "resolve"

\* xhr.onload of uploadBatch: resolve on a 2xx status, reject otherwise
xhr_onload(status) == IF status >= 200 /\ status < 300 THEN "resolve" ELSE "reject"

\* a request of uploadAlbum: the endpoint, whether albumName is a field of
\* the form, the album id in the address, the files, the number of the batch
Request(url, named, album, batch, k) ==
  [url |-> url, albumName |-> named, album |-> album, files |-> batch, k |-> k]

\* what comes back for request r: a status line, or the kind of failure
Response(r, kind, status) == [k |-> r.k, kind |-> kind, status |-> status]

InitUpload ==
  /\ \E n \in 0..MaxUpload : ufiles = [i \in 1..n |-> i]
  /\ upc = "first"
  /\ uflight = {}
  /\ usent = <<>>
  /\ utotal = 0
  /\ ui = 0
  /\ ualbum = <<>>
  /\ uloaded = 0
  /\ uprog = <<>>
  /\ userver = <<>>
  /\ uerr = <<>>
  /\ uresp = <<>>
  /\ EnsureOff
  /\ ProgressOff
  /\ InitIngest
  /\ ClassifierOff
  /\ FunctionOff
  /\ DownloadOff

\* xhr.send(formData) of uploadBatch
Send(r) ==
  /\ uflight' = uflight \cup {r}
  /\ usent' = Append(usent, r)
  /\ uloaded' = 0

\* the first request: all the files when there are at most BATCH_SIZE, the
\* first BATCH_SIZE otherwise; albumName is a field of the form
SendFirst ==
  /\ upc = "first"
  /\ Send(Request("upload", TRUE, 0,
                  IF Len(ufiles) <= BATCH_SIZE THEN ufiles ELSE slice(ufiles, 0, BATCH_SIZE), 1))
  /\ upc' = "await"
  /\ UNCHANGED <<ufiles, utotal, ui, ualbum, uprog, userver, uerr, uresp>>
  /\ UNCHANGED nonUpload

\* xhr.upload.onprogress: loaded / total * 100 for a call of one request,
\* (totalUploaded + loaded / total * batch.length) / totalFiles * 100 otherwise
UploadProgress ==
  /\ upc = "await"
  /\ \E r \in uflight, loaded \in (uloaded + 1)..EventTotal :
       /\ uloaded' = loaded
       /\ uprog' = Append(uprog,
                     IF Len(ufiles) <= BATCH_SIZE
                     THEN [num |-> loaded * 100, den |-> EventTotal]
                     ELSE [num |-> (utotal * EventTotal + loaded * Len(r.files)) * 100,
                           den |-> EventTotal * Len(ufiles)])
  /\ UNCHANGED <<ufiles, upc, uflight, usent, utotal, ui, ualbum, userver, uerr, uresp>>
  /\ UNCHANGED nonUpload

\* the promise of uploadBatch rejects: uploadAlbum has no handler and rejects
Rejects(r, error) ==
  /\ upc' = "rejected"
  /\ uerr' = <<[error |-> error, k |-> r.k]>>
  /\ UNCHANGED <<utotal, ui, ualbum, uprog>>

\* the response to the batch in flight arrives with a body that parses
BatchAnswered ==
  /\ upc = "await"
  /\ \E r \in uflight, status \in StatusCodes, id \in ReturnedIds :
       /\ uflight' = uflight \ {r}
       /\ userver' = IF status >= 200 /\ status < 300 THEN userver \o r.files ELSE userver
       /\ uresp' = Append(uresp, Response(r, "status", status))
       /\ IF xhr_onload(status) = "reject"
          THEN Rejects(r, "Upload failed")
          ELSE /\ uerr' = uerr
               /\ IF Len(ufiles) <= BATCH_SIZE
                  THEN /\ upc' = "resolved"
                       /\ UNCHANGED <<utotal, ui, ualbum, uprog>>
                  ELSE /\ upc' = "next"
                       /\ utotal' = utotal + Len(r.files)
                       /\ uprog' = Append(uprog, [num |-> (utotal + Len(r.files)) * 100,
                                                  den |-> Len(ufiles)])
                       /\ ualbum' = IF r.k = 1 THEN <<id>> ELSE ualbum
                       /\ ui' = IF r.k = 1 THEN 0 ELSE ui + BATCH_SIZE
  /\ UNCHANGED <<ufiles, usent, uloaded>>
  /\ UNCHANGED nonUpload

\* xhr.onerror or xhr.ontimeout: the server may or may not have ingested the batch
BatchLost ==
  /\ upc = "await"
  /\ \E r \in uflight, error \in {"Network error", "Upload timeout"} :
       /\ uflight' = uflight \ {r}
       /\ userver' \in {userver, userver \o r.files}
       /\ uresp' = Append(uresp, Response(r, error, 0))
       /\ Rejects(r, error)
  /\ UNCHANGED <<ufiles, usent, uloaded>>
  /\ UNCHANGED nonUpload

\* a 2xx response whose body is not JSON: JSON.parse throws inside xhr.onload
\* and the promise of uploadBatch never settles
BatchGarbled ==
  /\ upc = "await"
  /\ \E r \in uflight :
       /\ uflight' = uflight \ {r}
       /\ userver' = userver \o r.files
       /\ uresp' = Append(uresp, Response(r, "unparsable", 200))
  /\ upc' = "hung"
  /\ UNCHANGED <<ufiles, usent, utotal, ui, ualbum, uloaded, uprog, uerr>>
  /\ UNCHANGED nonUpload

\* mutant: the next batch is sent without awaiting the one in flight
SendNext_noawait ==
  /\ upc \in {"next", "await"}
  /\ ualbum # <<>>
  /\ LET remainingFiles == slice(ufiles, BATCH_SIZE, Len(ufiles))
     IN /\ ui < Len(remainingFiles)
        /\ Send(Request("photos", FALSE, ualbum[1],
                        slice(remainingFiles, ui, ui + BATCH_SIZE), Len(usent) + 1))
        /\ upc' = "await"
  /\ UNCHANGED <<ufiles, utotal, ui, ualbum, uprog, userver, uerr, uresp>>
  /\ UNCHANGED nonUpload

\* one round of the for loop up to its await, or getAlbumById after the loop
SendNext ==
  /\ upc = "next"
  /\ LET remainingFiles == slice(ufiles, BATCH_SIZE, Len(ufiles))
     IN IF ui < Len(remainingFiles)
        THEN /\ Send(Request("photos", FALSE, ualbum[1],
                             slice(remainingFiles, ui, ui + BATCH_SIZE), Len(usent) + 1))
             /\ upc' = "await"
        ELSE /\ Send(Request("album", FALSE, ualbum[1], <<>>, Len(usent) + 1))
             /\ upc' = "final"
  /\ UNCHANGED <<ufiles, utotal, ui, ualbum, uprog, userver, uerr, uresp>>
  /\ UNCHANGED nonUpload

\* getAlbumById settles: the album when response.ok, the error of fetchAPI otherwise
FinalAnswered ==
  /\ upc = "final"
  /\ \E r \in uflight, status \in StatusCodes :
       /\ uflight' = uflight \ {r}
       /\ uresp' = Append(uresp, Response(r, "status", status))
       /\ IF status >= 200 /\ status < 300
          THEN /\ upc' = "resolved"
               /\ uerr' = uerr
          ELSE /\ upc' = "rejected"
               /\ uerr' = <<[error |-> "HTTP Error", k |-> r.k]>>
  /\ UNCHANGED <<ufiles, usent, utotal, ui, ualbum, uloaded, uprog, userver>>
  /\ UNCHANGED nonUpload

NextUpload ==
  \/ SendFirst
  \/ UploadProgress
  \/ BatchAnswered
  \/ BatchLost
  \/ BatchGarbled
  \/ SendNext
  \/ FinalAnswered

SpecUpload == InitUpload /\ [][NextUpload]_vars

(***************************************************************************)
(* ensure_directory called by several requests for the same path: the test *)
(* is_dir and the call of mkdir are two steps, other callers run between.  *)
(***************************************************************************)
\* most requests calling ensure_directory for one path at a time
MaxCallers == 4

Callers == 1..MaxCallers

\* mkdir($path, 0775, true): creates the directory and returns true, or
\* returns false with a warning when the path is there already
mkdir(exists) == [exists |-> TRUE, result |-> ~exists, warning |-> exists]

\* mutant: a false result of mkdir is an error of the caller
ensure_directory_return_strict(result) == IF result THEN "returned" ELSE "failed"

\* ensure_directory does not look at what mkdir returns
ensure_directory_return(result) == "returned"

InitEnsure ==
  /\ dpc = [c \in Callers |-> "call"]
  /\ ddir \in BOOLEAN
  /\ dwarn = {}
  /\ UploadOff
  /\ ProgressOff
  /\ InitIngest
  /\ ClassifierOff
  /\ FunctionOff
  /\ DownloadOff

\* if (!is_dir($path))
IsDir(c) ==
  /\ dpc[c] = "call"
  /\ dpc' = [dpc EXCEPT ![c] = IF ddir THEN "returned" ELSE "mkdir"]
  /\ UNCHANGED <<ddir, dwarn>>
  /\ UNCHANGED nonEnsure

\* mkdir($path, 0775, true);
Mkdir(c) ==
  /\ dpc[c] = "mkdir"
  /\ ddir' = mkdir(ddir).exists
  /\ dwarn' = IF mkdir(ddir).warning THEN dwarn \cup {c} ELSE dwarn
  /\ dpc' = [dpc EXCEPT ![c] = ensure_directory_return(mkdir(ddir).result)]
  /\ UNCHANGED nonEnsure

NextEnsure ==
  \/ \E c \in Callers : IsDir(c)
  \/ \E c \in Callers : Mkdir(c)

SpecEnsure == InitEnsure /\ [][NextEnsure]_vars

(***************************************************************************)
(* get_unique_filename on its own: a directory, a file name, and the loop  *)
(* run one test of its condition at a time.                                *)
(***************************************************************************)
\* highest number n of the names "base (n)" placed in the directory
MaxCounter == 2

\* file names handed to get_unique_filename: with and without extension,
\* with the extension "0", starting and ending with a dot, with two dots
UniqueNames ==
  { <<"a">>, <<"a", ".", "j">>, <<"a", ".", "0">>, <<".", "j">>, <<"a", ".">>,
    <<"a", ".", "b", ".", "j">> }

\* the names a directory may hold beside filename itself: its numbered
\* variants, with and without the text after the last dot
NumberedNames(filename) ==
  LET cut == IF HasDot(filename) THEN LastDot(filename) ELSE Len(filename) + 1
      head == SubSeq(filename, 1, cut - 1)
      tail == SubSeq(filename, cut, Len(filename))
  IN UNION { { head \o <<" ", "(">> \o IntToString(n) \o <<")">>,
               head \o <<" ", "(">> \o IntToString(n) \o <<")">> \o tail } : n \in 1..MaxCounter }

UniqueDir == <<1, s_light>>

InitUnique ==
  /\ \E filename \in UniqueNames :
       \E names \in SUBSET ({filename} \cup NumberedNames(filename)) :
         arg = [filename |-> filename, names |-> names,
                fs |-> [path \in {<<UniqueDir[1], UniqueDir[2], n>> : n \in names} |-> 0]]
  /\ ret = <<>>
  /\ fpc = "call"
  /\ InitIngest
  /\ ClientOff
  /\ ClassifierOff
  /\ DownloadOff

\* $candidate = $filename; $counter = 1;
UniqueEnter ==
  /\ fpc = "call"
  /\ ret' = [candidate |-> arg.filename, counter |-> 1]
  /\ fpc' = "while"
  /\ UNCHANGED arg
  /\ UNCHANGED nonFunction

\* one test of the while condition: a round of the loop, or return $candidate
UniqueLoop ==
  /\ fpc = "while"
  /\ LET r == get_unique_filename_step(arg.fs, UniqueDir, arg.filename,
                                       ret.candidate, ret.counter)
     IN /\ ret' = [candidate |-> r.candidate, counter |-> r.counter]
        /\ fpc' = IF r.found THEN "get_unique_filename" ELSE "while"
  /\ UNCHANGED arg
  /\ UNCHANGED nonFunction

NextUnique == UniqueEnter \/ UniqueLoop

SpecUnique == InitUnique /\ [][NextUnique]_vars

(***************************************************************************)
(* Progress reporting of the browser's single-album download               *)
(* (downloadAlbumAsZip): the fetches of all photos run at once and settle  *)
(* in any order, then generateAsync reports its updates.  A progress value *)
(* p is kept as the fraction [num, den] with p = num / den; the members    *)
(* of the archive are not part of this model.                              *)
(***************************************************************************)
\* most photos of the album
MaxPhotos == 3

\* values of metadata.percent in the updates of generateAsync
Percents == {0, 40, 100}

InitProgress ==
  /\ gtotal \in 0..MaxPhotos
  /\ gpc = "fetch"
  /\ gpending = 1..gtotal
  /\ gloaded = 0
  /\ gpct = 0
  /\ gprog = <<>>
  /\ UploadOff
  /\ EnsureOff
  /\ InitIngest
  /\ ClassifierOff
  /\ FunctionOff
  /\ DownloadOff

\* the callback of one photo runs to its end: the photo is added and
\* onProgress((loadedPhotos / totalPhotos) * 100) is called, or the photo is
\* skipped (response not ok, empty blob, exception)
FetchSettles ==
  /\ gpc = "fetch"
  /\ \E i \in gpending, outcome \in {"ok", "status", "empty", "throws"} :
       /\ gpending' = gpending \ {i}
       /\ IF outcome = "ok"
          THEN /\ gloaded' = gloaded + 1
               /\ gprog' = Append(gprog, [num |-> (gloaded + 1) * 100, den |-> gtotal])
          ELSE UNCHANGED <<gloaded, gprog>>
  /\ UNCHANGED <<gtotal, gpc, gpct>>
  /\ UNCHANGED nonProgress

\* await Promise.all(fetchPromises); zip.generateAsync starts
GenerateStart ==
  /\ gpc = "fetch"
  /\ gpending = {}
  /\ gpc' = "generate"
  /\ UNCHANGED <<gtotal, gpending, gloaded, gpct, gprog>>
  /\ UNCHANGED nonProgress

\* an update of generateAsync: onProgress(50 + (metadata.percent / 2)); the
\* percentages of one run do not decrease
GenerateUpdate ==
  /\ gpc = "generate"
  /\ gpct < 100
  /\ \E percent \in Percents :
       /\ percent >= gpct
       /\ Len(gprog) < gtotal + Cardinality(Percents)
       /\ gpct' = percent
       /\ gprog' = Append(gprog, [num |-> 50 * 2 + percent, den |-> 2])
  /\ UNCHANGED <<gtotal, gpc, gpending, gloaded>>
  /\ UNCHANGED nonProgress

\* generateAsync resolves after its last update, of 100 percent; saveAs
SaveAs ==
  /\ gpc = "generate"
  /\ gpct = 100
  /\ gpc' = "done"
  /\ UNCHANGED <<gtotal, gpending, gloaded, gpct, gprog>>
  /\ UNCHANGED nonProgress

NextProgress == FetchSettles \/ GenerateStart \/ GenerateUpdate \/ SaveAs

SpecProgress == InitProgress /\ [][NextProgress]_vars



(***************************************************************************)
(* Properties of the classifier.  The definitions below restate the        *)
(* patterns of the specification on their own, without the operators of    *)
(* the implementation.                                                     *)
(***************************************************************************)
Lower(s) == [i \in 1..Len(s) |-> LowerChar(s[i])]

\* the segments of a relative path, either separator accepted
RECURSIVE Segments(_)
Segments(s) ==
  IF \A i \in 1..Len(s) : s[i] \notin {"/", "\\"}
  THEN <<s>>
  ELSE LET k == CHOOSE i \in 1..Len(s) :
                  s[i] \in {"/", "\\"} /\ \A j \in 1..(i - 1) : s[j] \notin {"/", "\\"}
       IN <<SubSeq(s, 1, k - 1)>> \o Segments(SubSeq(s, k + 1, Len(s)))

\* the tiers named by a whole segment of the path, whatever its case
SegmentTiers(s) ==
  {Lower(Segments(s)[i]) : i \in 1..Len(Segments(s))} \cap {s_light, s_max}

\* the same after stripping the white space around each segment
RECURSIVE Strip(_)
Strip(s) ==
  IF s # <<>> /\ Head(s) \in TrimChars THEN Strip(Tail(s))
  ELSE IF s # <<>> /\ s[Len(s)] \in TrimChars THEN Strip(SubSeq(s, 1, Len(s) - 1))
  ELSE s

StrippedSegmentTiers(s) ==
  {Lower(Strip(Segments(s)[i])) : i \in 1..Len(Segments(s))} \cap {s_light, s_max}

\* the filename: the last non-empty segment
FileNameOf(s) ==
  LET segs == Segments(s)
      ne == {i \in 1..Len(segs) : segs[i] # <<>>}
  IN IF ne = {} THEN s ELSE segs[CHOOSE i \in ne : \A j \in ne : j <= i]

Separators == {"_", "-", ".", " ", "\t", "\n", "\r"}

\* token tok stands at position i of s with a separator on both sides
TokenAt(tok, s, i) ==
  /\ i >= 1
  /\ i + Len(tok) + 1 <= Len(s)
  /\ s[i] \in Separators
  /\ Lower(SubSeq(s, i + 1, i + Len(tok))) = tok
  /\ s[i + Len(tok) + 1] \in Separators

HasToken(tok, s) == \E i \in 1..Len(s) : TokenAt(tok, s, i)

\* the tier of the leftmost match of /[_\-.\s](light|max)[_\-.\s]/i in s
LeftmostToken(s) ==
  LET at == {i \in 1..Len(s) : TokenAt(s_light, s, i) \/ TokenAt(s_max, s, i)}
      first == CHOOSE i \in at : \A j \in at : i <= j
  IN IF TokenAt(s_light, s, first) THEN s_light ELSE s_max

NoDirectory(s) == \A i \in 1..Len(s) : s[i] \notin {"/", "\\"}

\* C8 as stated: a path with a segment equal to light or max, in any case and
\* with either separator, is classified as the tier of such a segment.
C8_SegmentTier ==
  (cpc # "start" /\ SegmentTiers(cname) # {})
    => cresult.folderType \in SegmentTiers(cname)

\* C8 amended: a path in which some segment equals light or max once the
\* white space around it is stripped, in any case and with either separator,
\* is classified as the lower-case tier of such a segment.
C8_StrippedSegmentTier ==
  (cpc # "start" /\ StrippedSegmentTiers(cname) # {})
    => cresult.folderType \in StrippedSegmentTiers(cname)

C8_Witness ==
  /\ cpc = "gated"
  /\ cname = <<"a", "\\", "M", "a", "X", "/", "a">>
  /\ cresult.folderType = s_max

\* C9 as stated: a filename without directory that matches the combined
\* pattern gets the tier of the token the pattern matches, the leftmost one.
C9_LeftmostTokenTier ==
  (cpc # "start" /\ NoDirectory(cname)
     /\ (HasToken(s_light, cname) \/ HasToken(s_max, cname)))
    => cresult.folderType = LeftmostToken(cname)

\* C9 amended: a filename without directory is light when it holds a
\* delimited light token, and max when it holds a delimited max token and
\* no delimited light token.
C9_LightBeforeMax ==
  (cpc # "start" /\ NoDirectory(cname))
    => /\ HasToken(s_light, cname) => cresult.folderType = s_light
       /\ (HasToken(s_max, cname) /\ ~HasToken(s_light, cname))
            => cresult.folderType = s_max

C9_Witness ==
  /\ cpc = "gated"
  /\ cname = <<"_", "M", "a", "X", "_", "l", "i", "g", "h", "t", "_">>
  /\ cresult.folderType = s_light

RegistryComplete ==
  /\ Len(regfile) >= 2
  /\ regfile[1].k = "open"
  /\ regfile[Len(regfile)].k = "close"

RegistryAlbums ==
  IF RegistryComplete THEN DecodeAlbums(SubSeq(regfile, 2, Len(regfile) - 1), <<>>) ELSE <<>>

RegistryPhotos == AllPhotos(RegistryAlbums)

AcceptedPhotos(w) == [k \in 1..Len(accepted[w]) |-> accepted[w][k].photo]

\* C1: in every state, also after a crash between two steps, the stored file
\* of every photo of the registry exists.
C1_RegistryFilesExist ==
  \A ph \in RegistryPhotos : ph.storedPath \in DOMAIN files

\* a crash left an orphaned file beside a registry that holds photos
C1_Witness ==
  /\ pc[1] = "idle"
  /\ admitted > 0
  /\ RegistryPhotos # {}
  /\ \E p \in DOMAIN files : \A ph \in RegistryPhotos : ph.storedPath # p

\* C2: whenever no registry write is in progress, crashed writes included,
\* the registry file holds a complete record.
C2_RegistryAtomic ==
  (\A w \in Workers : pc[w] # "put_write") => RegistryComplete

\* C3: files stored one after the other get pairwise distinct paths, and
\* every stored file still has the content its own store gave it.
C3_DistinctStoredPaths ==
  \A i \in 1..Len(storeLog) :
    /\ storeLog[i].path \in DOMAIN files
    /\ files[storeLog[i].path] = storeLog[i].content
    /\ \A j \in 1..Len(storeLog) : i # j => storeLog[i].path # storeLog[j].path

\* three files of one cleaned name stored in one album and tier
C3_Witness ==
  \E i, j, k \in 1..Len(storeLog) :
    /\ i < j /\ j < k
    /\ storeLog[i].path[1] = storeLog[j].path[1] /\ storeLog[j].path[1] = storeLog[k].path[1]
    /\ storeLog[i].path[2] = s_light /\ storeLog[j].path[2] = s_light
    /\ storeLog[k].path[2] = s_light
    /\ storeLog[i].path[3] = <<"p", "h", "o", "t", "o", ".", "j", "p", "g">>
    /\ storeLog[j].path[3] = <<"p", "h", "o", "t", "o", " ", "(", "1", ")", ".", "j", "p", "g">>
    /\ storeLog[k].path[3] = <<"p", "h", "o", "t", "o", " ", "(", "2", ")", ".", "j", "p", "g">>

\* C4: under overlapping requests no step replaces the content of a file
\* that is already stored.
C4_NoOverwrite ==
  [][\A p \in DOMAIN files : p \in DOMAIN files' /\ files'[p] = files[p]]_vars

ReportsOf(w, i) ==
  Cardinality({k \in 1..Len(accepted[w]) : accepted[w][k].idx = i})
    + Cardinality({k \in 1..Len(failed[w]) : failed[w][k].idx = i})

\* C5: a failure does not end the batch: every file before the current one
\* is in exactly one of the two result lists, and the response is sent only
\* when that holds for every file of the request.
C5_EveryFileReported ==
  \A w \in Workers :
    pc[w] # "idle" =>
      /\ \A i \in 1..Len(req[w].files) : ReportsOf(w, i) = IF i < idx[w] THEN 1 ELSE 0
      /\ pc[w] = "done" => idx[w] = Len(req[w].files) + 1

\* a response with a failure for the first file and the second file accepted
C5_Witness ==
  /\ pc[1] = "done"
  /\ Len(req[1].files) = 2
  /\ \E k \in 1..Len(failed[1]) : failed[1][k].idx = 1
  /\ \E k \in 1..Len(accepted[1]) : accepted[1][k].idx = 2

\* C6: between the registry writes of a request and at its response, the
\* album's photo list is the list before the request followed by the photos
\* accepted so far, in processing order.
C6_OnlyAppends ==
  \A w \in Workers :
    pc[w] \notin {"idle", "put_write"} =>
      AlbumPhotos(RegistryAlbums, req[w].album) = req[w].before \o AcceptedPhotos(w)

\* a response for an album that held photos before, with two more accepted
C6_Witness ==
  /\ pc[1] = "done"
  /\ req[1].before # <<>>
  /\ Len(accepted[1]) = 2
  /\ Len(AlbumPhotos(RegistryAlbums, req[1].album)) = Len(req[1].before) + 2

\* C7: the thumbnail of every photo of the registry exists.
C7_ThumbnailExists ==
  \A ph \in RegistryPhotos : ph.thumbnailPath \in thumbs

(***************************************************************************)
(* Claims about the helper functions on their own.                         *)
(***************************************************************************)
ForbiddenChars == {"<", ">", ":", "\"", "/", "\\", "|", "?", "*"}

WhiteSpace == {" ", "\t", "\n", "\r"}

\* C11: the clean filename holds none of the characters < > : " / \ | ? *,
\* no run of two or more white-space characters, no white space at either
\* end, and is never empty.
C11_CleanFilename ==
  fpc = "sanitize_filename" =>
    /\ ret # <<>>
    /\ \A i \in 1..Len(ret) : ret[i] \notin ForbiddenChars
    /\ \A i \in 1..(Len(ret) - 1) : ~(ret[i] \in WhiteSpace /\ ret[i + 1] \in WhiteSpace)
    /\ ret[1] \notin WhiteSpace
    /\ ret[Len(ret)] \notin WhiteSpace

\* the content type the check looks at: read from the bytes when a finfo
\* handle is there, the declared one otherwise
Detected(f) == IF f.finfo THEN f.sniffed ELSE f.type

\* C12: a file is rejected exactly when its error code is not OK, or its size
\* is strictly above the ceiling, or its detected type is not allowed; the
\* first of these that applies, in that order, names the rejection.
C12_ValidationOrder ==
  fpc = "validate_uploaded_file" =>
    /\ arg.error # 0 => ret = "UploadError"
    /\ arg.error = 0 /\ arg.size > MAX_FILE_SIZE => ret = "FileTooLarge"
    /\ arg.error = 0 /\ arg.size <= MAX_FILE_SIZE /\ Detected(arg) \notin ALLOWED_MIME_TYPES
         => ret = "UnsupportedType"
    /\ arg.error = 0 /\ arg.size <= MAX_FILE_SIZE /\ Detected(arg) \in ALLOWED_MIME_TYPES
         => ret = "ok"

\* a file of exactly the ceiling size and an allowed type was accepted
C12_Witness ==
  /\ fpc = "validate_uploaded_file"
  /\ arg.error = 0
  /\ arg.size = MAX_FILE_SIZE
  /\ Detected(arg) \in ALLOWED_MIME_TYPES
  /\ ret = "ok"

(***************************************************************************)
(* Claims about downloads.                                                 *)
(***************************************************************************)
NoFileAdded == \A i \in 1..Len(zadds) : zadds[i].dir

PastSizeCheck == zpc \in {"header", "fopen", "loop", "finish", "done"}

\* C13: a download whose archive received no file never gets past the size
\* check (it ends with the empty-archive failure), and no header and no body
\* byte is sent.
C13_EmptyArchive ==
  NoFileAdded =>
    /\ ~PastSizeCheck
    /\ zhdr = <<>>
    /\ zchunks = <<>>

\* C14: a failing stream_zip has sent no header and no body byte, and a
\* client still connected at the end that received body bytes received the
\* whole archive.
C14_NoPartialArchive ==
  /\ zpc = "thrown" => zhdr = <<>> /\ zchunks = <<>>
  /\ zpc = "done" /\ zconn /\ zbody > 0 => zbody = zhdr[1]

\* C15: however stream_zip ends, the temporary file is gone.
C15_TempFileReleased ==
  zpc \in {"done", "thrown"} => ztmp = <<>>

AddsOf(k) == { i \in 1..Len(zadds) : zadds[i].alb = k }

\* C16: once add_folder_to_zip has returned for an album, its calls are one
\* file entry per stored file and one folder entry per subfolder, each named
\* by the top-level folder followed by the path relative to the album folder,
\* none missing, none twice, none outside the top-level folder.
C16_FolderEntries ==
  \A k \in 1..Len(zreq) :
    k < zalb =>
      LET F == zreq[k].folder
          top == zreq[k].name
      IN /\ \A n \in F.nodes :
              Cardinality({ i \in AddsOf(k) :
                              zadds[i].name = <<top>> \o n.path /\ zadds[i].dir = n.dir }) = 1
         /\ \A i \in AddsOf(k) :
              /\ zadds[i].name[1] = top
              /\ \E n \in F.nodes : zadds[i].name = <<top>> \o n.path
         /\ Cardinality({ i \in AddsOf(k) : ~zadds[i].dir })
              = Cardinality({ n \in F.nodes : ~n.dir })

\* the builder is through a first album that holds a file in each tier
C16_Witness ==
  /\ zalb > 1
  /\ Cardinality({ n \in zreq[1].folder.nodes : ~n.dir }) = 2
  /\ Cardinality({ i \in AddsOf(1) : ~zadds[i].dir }) = 2
  /\ Cardinality({ i \in AddsOf(1) : zadds[i].dir }) = 2

\* C19: towards a client that stays connected, the chunks are at most 65536
\* bytes each, the loop ends, and the body bytes sent add up to the
\* Content-Length header, which is the size of the finished archive.
C19_StreamsWholeArchive ==
  /\ [](\A i \in 1..Len(zchunks) : zchunks[i] <= CHUNK)
  /\ [](zhdr # <<>> => zhdr[1] = ZipSize(zadds))
  /\ [](zpc = "done" /\ zconn => zbody = zhdr[1])
  /\ (zpc = "loop" ~> zpc = "done")

(***************************************************************************)
(* Claims about the multi-album download.                                  *)
(***************************************************************************)
BrowserEnded == jpc \in {"done", "thrown"}

\* C17: the download succeeds whenever a file was added, fails only when
\* none was, an album without photos is no error, and the archive produced
\* holds every file that was added.
C17_MultiAlbumSucceeds ==
  BrowserEnded =>
    /\ jtotal >= 1 => jpc = "done"
    /\ jpc = "thrown" => jtotal = 0
    /\ jpc = "done" =>
         \A i \in 1..Len(jlog) : \E e \in jfiles : e.src = jlog[i].src

\* C18: a top-level folder holds files of one requested album only, that of
\* the album it is named after, also when two albums have the same name.
C18_FolderPerAlbum ==
  jpc = "done" =>
    \A k \in 1..Len(jalbums) : \A e \in jfiles :
      e.folder = jalbums[k].name =>
        \E p \in 1..Len(jalbums[k].photos) : jalbums[k].photos[p] = e.src

(***************************************************************************)
(* Claims about the thumbnail geometry.  The exact scale is                *)
(* THUMBNAIL_SIZE / max(w, h); the distances to w * scale and h * scale    *)
(* are compared after multiplying by max(w, h), in whole numbers.          *)
(***************************************************************************)
Longer == IF arg.width >= arg.height THEN arg.width ELSE arg.height

Dist(a, b) == IF a >= b THEN a - b ELSE b - a

SquareCanvas == ret.canvas = <<THUMBNAIL_SIZE, THUMBNAIL_SIZE>>

RegionInCanvas ==
  /\ ret.newWidth >= 1 /\ ret.dstX >= 0 /\ ret.dstX + ret.newWidth <= THUMBNAIL_SIZE
  /\ ret.newHeight >= 1 /\ ret.dstY >= 0 /\ ret.dstY + ret.newHeight <= THUMBNAIL_SIZE

\* C20 as stated: the canvas is targetSize x targetSize, the resized region
\* lies inside it, and newWidth and newHeight each differ by less than 1 from
\* w * scale and h * scale.
C20_LessThanOnePixel ==
  fpc = "create_thumbnail" =>
    /\ SquareCanvas
    /\ RegionInCanvas
    /\ Dist(ret.newWidth * Longer, arg.width * THUMBNAIL_SIZE) < Longer
    /\ Dist(ret.newHeight * Longer, arg.height * THUMBNAIL_SIZE) < Longer

\* C20 amended: the canvas is targetSize x targetSize, the resized region
\* lies inside it, and newWidth and newHeight each differ by at most 1 from
\* w * scale and h * scale.
C20_AtMostOnePixel ==
  fpc = "create_thumbnail" =>
    /\ SquareCanvas
    /\ RegionInCanvas
    /\ Dist(ret.newWidth * Longer, arg.width * THUMBNAIL_SIZE) <= Longer
    /\ Dist(ret.newHeight * Longer, arg.height * THUMBNAIL_SIZE) <= Longer

\* a source so wide that its scaled height is below one pixel, clamped to 1
C20_Witness ==
  /\ fpc = "create_thumbnail"
  /\ arg.height * THUMBNAIL_SIZE < arg.width
  /\ ret.newHeight = 1
  /\ ret.newWidth = THUMBNAIL_SIZE

(***************************************************************************)
(* Properties of the client-side batcher.                                  *)
(***************************************************************************)
BatchRequests(q) == SelectSeq(q, LAMBDA r : r.url # "album")

\* request k was answered with a 2xx status and a body that parses
Succeeded(k) ==
  \E i \in 1..Len(uresp) :
    uresp[i].k = k /\ uresp[i].kind = "status" /\ uresp[i].status \in 200..299

\* C21: within one uploadAlbum call at most one batch request is in flight
\* at any moment, and a batch is sent only when no request is in flight and
\* every batch sent before it has been answered successfully
C21_SequentialBatches ==
  /\ [](Cardinality({r \in uflight : r.url # "album"}) <= 1)
  /\ [][Len(BatchRequests(usent')) > Len(BatchRequests(usent))
          => /\ uflight = {}
             /\ \A k \in 1..Len(usent) : Succeeded(k)]_vars

\* the third batch is in flight, after two answered batches
C21_Witness ==
  /\ Len(usent) = 3
  /\ uflight = {usent[3]}
  /\ usent[3].url = "photos"
  /\ Succeeded(1)
  /\ Succeeded(2)

RECURSIVE FilesOf(_)
FilesOf(q) == IF q = <<>> THEN <<>> ELSE Head(q).files \o FilesOf(Tail(q))

\* C28: the batches sent so far hold, in order and without repetition, the
\* first files of the list, at most BATCH_SIZE each, and all the files once
\* the call has resolved; the first batch goes to the create-album endpoint
\* with albumName, every later one to the photos endpoint of the album id of
\* the first response, without albumName
C28_BatchPartition ==
  LET sent == BatchRequests(usent)
  IN upc # "off" =>
       /\ FilesOf(sent) = SubSeq(ufiles, 1, Len(FilesOf(sent)))
       /\ upc = "resolved" => FilesOf(sent) = ufiles
       /\ \A k \in 1..Len(sent) :
            /\ Len(sent[k].files) <= BATCH_SIZE
            /\ k = 1 => sent[k].url = "upload" /\ sent[k].albumName
            /\ k > 1 => /\ sent[k].url = "photos"
                        /\ ~sent[k].albumName
                        /\ sent[k].album = ualbum[1]
                        /\ sent[k].files # <<>>

\* a call with eleven files has resolved after three batches
C28_Witness ==
  /\ upc = "resolved"
  /\ Len(ufiles) = 2 * BATCH_SIZE + 1
  /\ Len(BatchRequests(usent)) = 3

\* batch k failed: a status outside 2xx, a network error or a timeout
BatchFailed(k) ==
  /\ usent[k].url # "album"
  /\ \E i \in 1..Len(uresp) :
       /\ uresp[i].k = k
       /\ \/ uresp[i].kind = "status" /\ uresp[i].status \notin 200..299
          \/ uresp[i].kind \in {"Network error", "Upload timeout"}

ErrorOf(k) ==
  LET a == uresp[CHOOSE i \in 1..Len(uresp) : uresp[i].k = k]
  IN IF a.kind = "status" THEN "Upload failed" ELSE a.kind

\* C29: when a batch has failed, uploadAlbum has rejected with the error of
\* that batch, no request was sent after it and none is in flight, every
\* progress value reported is at most the share of the files sent so far,
\* and the files of the batches before it are ingested
C29_FailedBatchRejects ==
  \A k \in 1..Len(usent) :
    BatchFailed(k) =>
      /\ upc = "rejected"
      /\ uerr = <<[error |-> ErrorOf(k), k |-> k]>>
      /\ Len(usent) = k
      /\ uflight = {}
      /\ \A j \in 1..Len(uprog) :
           uprog[j].num * Len(ufiles) <= 100 * uprog[j].den * Len(FilesOf(usent))
      /\ FilesOf(SubSeq(usent, 1, k - 1)) = SubSeq(userver, 1, (k - 1) * BATCH_SIZE)

\* the second batch of three failed after a progress event of its own
C29_Witness ==
  /\ Len(ufiles) = 2 * BATCH_SIZE + 1
  /\ Len(usent) = 2
  /\ BatchFailed(2)
  /\ Len(uprog) >= 2
  /\ uprog[Len(uprog)].num * Len(ufiles) > 100 * uprog[Len(uprog)].den * BATCH_SIZE

(***************************************************************************)
(* Properties of ensure_directory under concurrent calls.                  *)
(***************************************************************************)
\* C22: under every interleaving of the callers of ensure_directory for one
\* path no caller fails, and the directory exists once a call has returned
C22_EnsureDirectorySafe ==
  \A c \in DOMAIN dpc :
    /\ dpc[c] # "failed"
    /\ dpc[c] = "returned" => ddir

\* every call has returned, and two of them lost the race: their mkdir ran
\* after another caller had created the directory
C22_Witness ==
  /\ dpc # <<>>
  /\ \A c \in DOMAIN dpc : dpc[c] = "returned"
  /\ Cardinality(dwarn) >= 2

(***************************************************************************)
(* Properties of the registry under overlapping requests.                  *)
(***************************************************************************)
BothDone == \A w \in Workers : pc[w] = "done"

\* every photo request w reported as accepted is in the registry, in its album
AppendSurvives(w) ==
  \A i \in 1..Len(accepted[w]) :
    \E j \in 1..Len(AlbumPhotos(read_albums_data(regfile), req[w].album)) :
      AlbumPhotos(read_albums_data(regfile), req[w].album)[j] = accepted[w][i].photo

\* C23: after two requests into the same album have finished, the registry
\* is a valid record, still holds the album and the photo that were there
\* before them, and holds the photos appended by at least one of the two
C23_RegistryNotCorrupted ==
  (BothDone /\ req[1].album = req[2].album) =>
    /\ json_valid(regfile)
    /\ AlbumPhotos(read_albums_data(regfile), 1) # <<>>
    /\ AlbumPhotos(read_albums_data(regfile), 1)[1] = FirstPhoto
    /\ \E w \in Workers : AppendSurvives(w)

\* C24: after two requests into two different albums have finished, the
\* registry holds the photos appended by both, and the photo the other album
\* had before
C24_OtherAlbumsKept ==
  (BothDone /\ req[1].album # req[2].album) =>
    /\ \A w \in Workers : AppendSurvives(w)
    /\ FirstPhoto \in AllPhotos(read_albums_data(regfile))

(***************************************************************************)
(* Properties of stream_zip when the client disconnects.                   *)
(***************************************************************************)
\* C25: once the client has disconnected, no step of stream_zip adds a member
\* to the archive, and a step that echoes a chunk leaves the read loop
C25_DisconnectAborts ==
  [][~zconn => /\ zadds' = zadds
               /\ zchunks' # zchunks => zpc' # "loop"]_vars

(***************************************************************************)
(* Properties of get_unique_filename.  The extension of a name is the text *)
(* after its last dot, the base the text before it.                        *)
(***************************************************************************)
NameBase(f) ==
  IF \E i \in 1..Len(f) : f[i] = "."
  THEN SubSeq(f, 1, (CHOOSE i \in 1..Len(f) : f[i] = "." /\ \A j \in (i + 1)..Len(f) : f[j] # ".") - 1)
  ELSE f

NameExtension(f) == SubSeq(f, Len(NameBase(f)) + 2, Len(f))

SuffixedName(f, n) ==
  NameBase(f) \o <<" ", "(">> \o IntToString(n) \o <<")">>
    \o (IF NameExtension(f) = <<>> THEN <<>> ELSE <<".">> \o NameExtension(f))

\* C26: get_unique_filename returns the file name itself when the directory
\* has no file of that name; otherwise base (n).extension, without the dot
\* when there is no extension, for the smallest n >= 1 whose name is unused;
\* the name returned is never one of the directory
C26_SmallestUnusedName ==
  fpc = "get_unique_filename" =>
    /\ ret.candidate \notin arg.names
    /\ arg.filename \notin arg.names => ret.candidate = arg.filename
    /\ arg.filename \in arg.names =>
         \E n \in 1..(MaxCounter + 1) :
           /\ ret.candidate = SuffixedName(arg.filename, n)
           /\ \A m \in 1..(n - 1) : SuffixedName(arg.filename, m) \in arg.names

(***************************************************************************)
(* Priority of the path segments over the filename token.                  *)
(***************************************************************************)
\* the tier of the first segment that equals light or max, whatever its case
FirstSegmentTier(s) ==
  LET segs == Segments(s)
      hits == {i \in 1..Len(segs) : Lower(segs[i]) \in {s_light, s_max}}
  IN Lower(segs[CHOOSE i \in hits : \A j \in hits : i <= j])

\* the same after stripping the white space around each segment
FirstStrippedSegmentTier(s) ==
  LET segs == Segments(s)
      hits == {i \in 1..Len(segs) : Lower(Strip(segs[i])) \in {s_light, s_max}}
  IN Lower(Strip(segs[CHOOSE i \in hits : \A j \in hits : i <= j]))

\* C27 as stated: a path with a segment equal to light or max gets the tier
\* of the first such segment, whatever tokens its filename holds.
C27_FirstSegmentWins ==
  (cpc # "start" /\ SegmentTiers(cname) # {})
    => cresult.folderType = FirstSegmentTier(cname)

\* C27 amended: a path with a segment that equals light or max once the
\* white space around it is stripped gets the tier of the first such
\* segment, whatever tokens its filename holds.
C27_FirstStrippedSegmentWins ==
  (cpc # "start" /\ StrippedSegmentTiers(cname) # {})
    => cresult.folderType = FirstStrippedSegmentTier(cname)

\* light/_MaX_ is light although its filename holds a max token
C27_Witness ==
  /\ cpc = "gated"
  /\ cname = s_light \o <<"/", "_", "M", "a", "X", "_">>
  /\ HasToken(s_max, FileNameOf(cname))
  /\ cresult.folderType = s_light

(***************************************************************************)
(* Properties of the progress values of downloadAlbumAsZip.                *)
(***************************************************************************)
\* C30: the values passed to onProgress during one call never decrease and
\* stay within 0..100, and the last one of a finished call is 100
C30_ProgressMonotone ==
  /\ \A j \in 1..Len(gprog) :
       /\ gprog[j].num >= 0
       /\ gprog[j].num <= 100 * gprog[j].den
  /\ \A j \in 1..(Len(gprog) - 1) :
       gprog[j].num * gprog[j + 1].den <= gprog[j + 1].num * gprog[j].den
  /\ gpc = "done" => (gprog # <<>> /\ gprog[Len(gprog)].num = 100 * gprog[Len(gprog)].den)

====
